---- MODULE Spec2Model ----
(***************************************************************************)
(* A model of neofoodclub.rs: the bit encoding of pirate selections, the   *)
(* round table builder, the partition refinement of expand_ib_object, and  *)
(* the bets / amounts hash codecs (src/src/math.rs, src/src/bets.rs).      *)
(*                                                                         *)
(* Arrays indexed from 0 in the source are functions over 0..n-1 here, so  *)
(* that an index of the model is the index of the source.  Strings are     *)
(* sequences of ASCII byte values.  u8 / u32 arithmetic keeps its width.   *)
(***************************************************************************)
EXTENDS Integers, Sequences, FiniteSets, TLC

VARIABLES
    pc,               \* the call in progress, or "idle"
    overflow_checks,  \* the build profile: TRUE = debug (overflow panics), FALSE = release (wraps)
    index,            \* pirate_binary: argument index
    arena,            \* pirate_binary: argument arena
    pb_ret,           \* pirate_binary: [panicked, value]
    bets_indices,     \* pirates_binary: argument, a [u8; 5]
    binary,           \* pirates_binary's result, binary_to_indices' argument
    indices,          \* binary_to_indices' result
    stds,             \* make_round_dicts: argument, the 5x5 probabilities
    odds,             \* make_round_dicts: argument, the 5x5 payout factors
    round_dict,       \* make_round_dicts' result, a RoundDictData
    bets,             \* expand_ib_object: argument, the bets' selections
    bet_odds,         \* expand_ib_object: argument, the bets' odds
    bets_to_ib,       \* expand_ib_object: the merged (pattern, winnings) pairs, sorted, not yet processed
    ib_cur,           \* expand_ib_object: the (ib_bet, winnings) pair being processed
    drained_elements, \* expand_ib_object: the overlapped keys of the pair not yet processed
    res,              \* expand_ib_object: the region -> payout map
    hash_bets,        \* bets_hash_value: argument, a Vec<[u8; 5]>
    bets_hash,        \* bets_hash_value's result, bets_hash_to_bet_indices' argument
    hash_ret,         \* bets_hash_to_bet_indices' result, a Result<Vec<[u8; 5]>, String>
    bet_amounts_arg,  \* bet_amounts_to_amounts_hash: argument, a slice of Option<u32>
    amounts_hash,     \* an amounts hash: an encoder's result, amounts_hash_to_bet_amounts' argument
    amounts_ret,      \* amounts_hash_to_bet_amounts' result, a Result<Vec<Option<u32>>, String>
    bets_obj,         \* a Bets: its array_indices and bet_amounts
    set_ret,          \* Bets::set_bet_amounts' result: TRUE for Ok(()), FALSE for Err
    set_arg,          \* Bets::set_bet_amounts: argument, an Option<BetAmounts>
    count_ret,        \* bets_hash_to_bets_count's result, a Result<usize, String>
    binaries_ret,     \* bets_hash_to_bet_binaries' result, a Result<Vec<u32>, String>
    probabilities,    \* build_chance_objects: argument, the 5x5 win probabilities
    chances,          \* build_chance_objects' result, a Vec<Chance>
    nfc_bet_amount,   \* NeoFoodClub: bet_amount, an Option<u32>
    binaries_arg,     \* make_bets_from_binaries: argument, a Vec<u32>
    bet_set,          \* a Bets: array_indices, bet_binaries, bet_amounts, odds
    win_ret,          \* Bets::is_guaranteed_win's result: [panicked, value]
    bustproof_ret,    \* make_bustproof_bets' result, an Option<Bets>
    modifier,         \* NeoFoodClub: modifier, a Modifier: value, custom_odds, custom_time
    winners,          \* NeoFoodClub::winners(): round_data.winners or [0; 5]
    pirates_binary_arg, \* make_gambit_bets, make_tenbet_bets: argument pirates_binary
    sort_ties,        \* argsort_by: where sort_unstable_by leaves equal elements
    gen_ret,          \* make_gambit_bets, make_tenbet_bets: "Ok", "Err" or "panicked"
    np_ret,           \* get_win_np's result: [panicked, value]
    original,         \* the RoundData NeoFoodClub::new was given
    round_data,       \* NeoFoodClub: round_data
    data_cell,        \* NeoFoodClub: the OnceCell data, an Option<RoundDictData>
    clamped_max_bets, \* NeoFoodClub: the OnceCell clamped_max_bets
    net_expected_indices, \* NeoFoodClub: the OnceCell net_expected_indices
    max_ters_ret      \* max_ters' result, a Vec<f64>

bitVars == <<overflow_checks, index, arena, pb_ret, bets_indices, binary, indices>>

tableVars == <<stds, odds, round_dict>>

ibVars == <<bets, bet_odds, bets_to_ib, ib_cur, drained_elements, res>>

hashVars == <<hash_bets, bets_hash, hash_ret>>

amountVars == <<bet_amounts_arg, amounts_hash, amounts_ret, bets_obj, set_ret, set_arg>>

decodeVars == <<count_ret, binaries_ret>>

chanceVars == <<probabilities, chances>>

betsVars == <<nfc_bet_amount, binaries_arg, bet_set, win_ret, bustproof_ret>>

genVars == <<modifier, winners, pirates_binary_arg, sort_ties, gen_ret, np_ret>>

objVars == <<original, round_data, data_cell, clamped_max_bets, net_expected_indices, max_ters_ret>>

nfcVars == <<genVars, objVars>>

vars == <<pc, bitVars, tableVars, ibVars, hashVars, amountVars, decodeVars, chanceVars, betsVars,
          nfcVars>>

\* what the calls of one component leave alone: the other components' state
bitFrame == <<tableVars, ibVars, hashVars, amountVars, decodeVars, chanceVars, betsVars,
            nfcVars>>

tableFrame == <<bitVars, ibVars, hashVars, amountVars, decodeVars, chanceVars, betsVars,
            nfcVars>>

ibFrame == <<bitVars, tableVars, hashVars, amountVars, decodeVars, chanceVars, betsVars,
            nfcVars>>

hashFrame == <<bitVars, tableVars, ibVars, amountVars, decodeVars, chanceVars, betsVars,
            nfcVars>>

amountFrame == <<bitVars, tableVars, ibVars, hashVars, decodeVars, chanceVars, betsVars,
            nfcVars>>

decodeFrame == <<bitVars, tableVars, ibVars, hashVars, amountVars, chanceVars, betsVars,
            nfcVars>>

chanceFrame == <<bitVars, tableVars, ibVars, hashVars, amountVars, decodeVars, betsVars,
            nfcVars>>

betsFrame == <<bitVars, tableVars, ibVars, hashVars, amountVars, decodeVars, chanceVars, nfcVars>>

\* what a call on a NeoFoodClub leaves alone, besides fields of the object
nfcFrame == <<bitVars, ibVars, hashVars, amountVars, decodeVars, chanceVars>>

----------------------------------------------------------------------------
(* Fixed-width integers and bit operations.                                *)

U8Max == 255

U32Bits == 32

Pow2(n) == 2 ^ n

ARENAS == 0 .. 4

\* the bits of a nibble, as the set of the bit positions (0 = least significant) that are set
NibBits(x) == {b \in 0 .. 3 : (x \div Pow2(b)) % 2 = 1}

NibVal(S) == (IF 0 \in S THEN 1 ELSE 0) + (IF 1 \in S THEN 2 ELSE 0)
             + (IF 2 \in S THEN 4 ELSE 0) + (IF 3 \in S THEN 8 ELSE 0)

NibAndTable == [x \in 0 .. 15 |-> [y \in 0 .. 15 |-> NibVal(NibBits(x) \cap NibBits(y))]]

NibOrTable == [x \in 0 .. 15 |-> [y \in 0 .. 15 |-> NibVal(NibBits(x) \cup NibBits(y))]]

NibXorTable == [x \in 0 .. 15 |-> [y \in 0 .. 15 |->
                  NibVal((NibBits(x) \cup NibBits(y)) \ (NibBits(x) \cap NibBits(y)))]]

RECURSIVE BitAnd(_, _)
\* a & b; the operands are bound to their values once, so that the cost of a
\* nest of bit operations is the sum of the costs of its parts
BitAnd(a, b) ==
    CHOOSE r \in {IF x = 0 \/ y = 0 THEN 0
                  ELSE NibAndTable[x % 16][y % 16] + 16 * BitAnd(x \div 16, y \div 16) :
                  x \in {a}, y \in {b}} : TRUE

RECURSIVE BitOr(_, _)
\* a | b
BitOr(a, b) ==
    CHOOSE r \in {IF x = 0 THEN y
                  ELSE IF y = 0 THEN x
                  ELSE NibOrTable[x % 16][y % 16] + 16 * BitOr(x \div 16, y \div 16) :
                  x \in {a}, y \in {b}} : TRUE

RECURSIVE BitXor(_, _)
\* a ^ b
BitXor(a, b) ==
    CHOOSE r \in {IF x = 0 THEN y
                  ELSE IF y = 0 THEN x
                  ELSE NibXorTable[x % 16][y % 16] + 16 * BitXor(x \div 16, y \div 16) :
                  x \in {a}, y \in {b}} : TRUE

\* wrapping u8 arithmetic
WrapU8(x) == x % (U8Max + 1)

\* a & !m on u32 values: the bits of a that are not in m
BitAndNot(a, m) == a - BitAnd(a, m)

\* a >> n on a u32 value below 2^31, n < 32
Shr(a, n) == IF n >= 31 THEN 0 ELSE a \div Pow2(n)

RECURSIVE trailing_zeros(_)
\* u32::trailing_zeros of a non-zero value
trailing_zeros(x) == IF x % 2 = 1 THEN 0 ELSE 1 + trailing_zeros(x \div 2)

----------------------------------------------------------------------------
(* math.rs: constants.                                                     *)

BET_AMOUNT_MIN == 1

BET_AMOUNT_MAX == 70304

\* [0xF0000, 0xF000, 0xF00, 0xF0, 0xF]
BIT_MASKS == [a \in ARENAS |-> 15 * Pow2(4 * (4 - a))]

\* [0x88888, 0x44444, 0x22222, 0x11111]
PIR_IB == [y \in 0 .. 3 |-> 69905 * Pow2(3 - y)]

\* [0xFFFFF, 0x88888, 0x44444, 0x22222, 0x11111]
CONVERT_PIR_IB == [v \in 0 .. 4 |-> IF v = 0 THEN 1048575 ELSE PIR_IB[v - 1]]

\* 0x80000, the bit of pirate 1 of arena 0
TOP_BIT == 524288

----------------------------------------------------------------------------
(* math.rs: pirate_binary, pirates_binary, binary_to_indices.              *)

\* the shift amount (index - 1) + arena * 4, computed in u8 without wrapping
pirate_shift(idx, ar) == (idx - 1) + ar * 4

\* whether the u8 arithmetic or the u32 shift of pirate_binary overflows
pirate_binary_overflows(idx, ar) ==
    /\ idx \in 1 .. 4
    /\ \/ ar * 4 > U8Max
       \/ pirate_shift(idx, ar) > U8Max
       \/ pirate_shift(idx, ar) >= U32Bits

\* pirate_binary's value; where the arithmetic overflows, the wrapped
\* (release build) value: u8 arithmetic modulo 256, shift amount modulo 32
pirate_binary(idx, ar) ==
    IF idx \in 1 .. 4
    THEN Shr(TOP_BIT, WrapU8((idx - 1) + WrapU8(ar * 4)) % U32Bits)
    ELSE 0

\* one call of pirate_binary under a build profile: a debug build panics
\* where the arithmetic overflows, a release build returns the wrapped value
pirate_binary_call(idx, ar, checks) ==
    IF checks /\ pirate_binary_overflows(idx, ar)
    THEN [panicked |-> TRUE, value |-> 0]
    ELSE [panicked |-> FALSE, value |-> pirate_binary(idx, ar)]

RECURSIVE pirates_binary_fold(_, _)
\* the fold of pirates_binary over the arenas a..4
pirates_binary_fold(sel, a) ==
    IF a > 4 THEN 0
    ELSE BitOr(pirate_binary(sel[a], a), pirates_binary_fold(sel, a + 1))

pirates_binary(sel) == pirates_binary_fold(sel, 0)

\* the mutant: the position is counted from the wrong end of the nibble
binary_to_indices_reversed(bin) ==
    [i \in ARENAS |->
        LET nibble == BitAnd(Shr(bin, 4 * (4 - i)), 15)
        IN  IF nibble # 0 THEN 1 + trailing_zeros(nibble) ELSE 0]

binary_to_indices(bin) ==
    [i \in ARENAS |->
        LET nibble == BitAnd(Shr(bin, 4 * (4 - i)), 15)
        IN  IF nibble # 0 THEN 4 - trailing_zeros(nibble) ELSE 0]

\* every [u8; 5] with entries 0..4: the selections
Selections == [ARENAS -> 0 .. 4]

ZeroSelection == [a \in ARENAS |-> 0]

----------------------------------------------------------------------------
(* math.rs: make_round_dicts.                                              *)
(* An f64 probability is an exact fraction [num, den]; the products of the *)
(* table are products of fractions, left unreduced.  A payout factor is a  *)
(* u8, a product of payout factors a u32.                                  *)

\* a 5-element array written out
Arr5(c0, c1, c2, c3, c4) == [p \in 0 .. 4 |-> <<c0, c1, c2, c3, c4>>[p + 1]]

\* the five nested loops `for a in 0..5 { for b in 0..5 { ... } }`, in the
\* order they run: the k-th tuple [a, b, c, d, e], e running fastest
loop_nums(k) == [i \in ARENAS |-> (k \div (5 ^ (4 - i))) % 5]

loop_count == 5 ^ 5

\* the mutant: the loop skips every tuple that has an unpicked arena
loop_skips_any_zero(nums) == \E i \in ARENAS : nums[i] = 0

\* `if a == 0 && b == 0 && c == 0 && d == 0 && e == 0 { continue; }`
loop_skips(nums) == \A i \in ARENAS : nums[i] = 0

\* the tuples that reach the body of the loop, in order
loop_body_nums ==
    SelectSeq([k \in 1 .. loop_count |-> loop_nums(k - 1)], LAMBDA nums : ~loop_skips(nums))

FracOne == [num |-> 1, den |-> 1]

FracMul(x, y) == [num |-> x.num * y.num, den |-> x.den * y.den]

\* x * n as f64, n an integer
FracScale(x, n) == [num |-> x.num * n, den |-> x.den]

RECURSIVE fold_probs_odds(_, _, _, _, _)
\* the fold over the arenas ar..4 that yields (total_probs, total_odds)
fold_probs_odds(nums, std, od, ar, acc) ==
    IF ar > 4 THEN acc
    ELSE fold_probs_odds(nums, std, od, ar + 1,
            IF nums[ar] = 0 THEN acc
            ELSE [probs |-> FracMul(acc.probs, std[ar][nums[ar]]),
                  odds  |-> acc.odds * od[ar][nums[ar]]])

\* the mutant: the quotient is truncated
maxbet_truncated(total_odds) == 1000000 \div total_odds

\* (1_000_000.0 / total_odds as f64).ceil() as u32.  total_odds <= 13^5 is
\* exact in f64, and a quotient that is no integer lies at least 1/total_odds
\* from one, far more than the rounding of the division: the ceiling of the
\* f64 quotient is the ceiling of the exact quotient.
maxbet_of(total_odds) ==
    IF 1000000 % total_odds = 0 THEN 1000000 \div total_odds
    ELSE (1000000 \div total_odds) + 1

\* one iteration of the loop body: the five values pushed for nums
round_entry(nums, std, od) ==
    LET total == fold_probs_odds(nums, std, od, 0, [probs |-> FracOne, odds |-> 1])
    IN  [bin    |-> pirates_binary(nums),
         prob   |-> total.probs,
         odds   |-> total.odds,
         er     |-> FracScale(total.probs, total.odds),
         maxbet |-> maxbet_of(total.odds)]

make_round_dicts(std, od) ==
    LET entries == [i \in 1 .. Len(loop_body_nums) |-> round_entry(loop_body_nums[i], std, od)]
    IN  [bins    |-> [i \in 1 .. Len(entries) |-> entries[i].bin],
         probs   |-> [i \in 1 .. Len(entries) |-> entries[i].prob],
         odds    |-> [i \in 1 .. Len(entries) |-> entries[i].odds],
         ers     |-> [i \in 1 .. Len(entries) |-> entries[i].er],
         maxbets |-> [i \in 1 .. Len(entries) |-> entries[i].maxbet]]

----------------------------------------------------------------------------
(* math.rs: ib_doable, expand_ib_object.                                   *)
(* A HashMap<u32, u32> is a function from its keys to their values.        *)

ib_doable(bin) == \A a \in ARENAS : BitAnd(bin, BIT_MASKS[a]) # 0

RECURSIVE bet_pattern_fold(_, _)
\* the fold of a bet over zip(bet_value, BIT_MASKS), arenas a..4
bet_pattern_fold(bet_value, a) ==
    IF a > 4 THEN 0
    ELSE BitOr(BitAnd(CONVERT_PIR_IB[bet_value[a]], BIT_MASKS[a]),
               bet_pattern_fold(bet_value, a + 1))

\* the acceptance pattern ib of a bet
bet_pattern(bet_value) == bet_pattern_fold(bet_value, 0)

EmptyMap == [k \in {} |-> 0]

MapInsert(m, k, v) ==
    CHOOSE r \in {[x \in DOMAIN mm \cup {kk} |-> IF x = kk THEN vv ELSE mm[x]] :
                  mm \in {m}, kk \in {k}, vv \in {v}} : TRUE

MapRemove(m, k) ==
    CHOOSE r \in {[x \in DOMAIN mm \ {kk} |-> mm[x]] : mm \in {m}, kk \in {k}} : TRUE

\* e, after v is computed: the body of a loop is run before its next iteration
Then(v, e) == IF v = v THEN e ELSE e

RECURSIVE merge_bets_overwrite(_, _, _, _)
\* the mutant: a bet with a pattern already seen replaces its odds (= for +=)
merge_bets_overwrite(bs, os, key, m) ==
    IF key > Len(bs) THEN m
    ELSE merge_bets_overwrite(bs, os, key + 1, MapInsert(m, bet_pattern(bs[key]), os[key]))

RECURSIVE merge_bets(_, _, _, _)
\* the first loop: `*bets_to_ib.entry(ib).or_insert(0) += bet_odds[key]`
merge_bets(bs, os, key, m) ==
    IF key > Len(bs) THEN m
    ELSE LET ib == bet_pattern(bs[key])
         IN  merge_bets(bs, os, key + 1,
                 MapInsert(m, ib, (IF ib \in DOMAIN m THEN m[ib] ELSE 0) + os[key]))

RECURSIVE sorted_pairs(_)
\* `bets_to_ib.into_iter().collect()` then `sort()`: the pairs by ascending key
sorted_pairs(m) ==
    IF DOMAIN m = {} THEN <<>>
    ELSE LET k == CHOOSE x \in DOMAIN m : \A y \in DOMAIN m : x <= y
         IN  <<[ib_bet |-> k, winnings |-> m[k]]>> \o sorted_pairs(MapRemove(m, k))

RECURSIVE split_arenas_no_narrowing(_, _, _, _, _)
\* the mutant: ib_key is not narrowed to com after a leftover is emitted
split_arenas_no_narrowing(m, ib_key, com, val_key, a) ==
    IF a > 4 THEN m
    ELSE LET ar  == BIT_MASKS[a]
             tst == BitXor(ib_key, BitAnd(com, ar))
         IN  IF ~ib_doable(tst)
             THEN split_arenas_no_narrowing(m, ib_key, com, val_key, a + 1)
             ELSE LET ins == MapInsert(m, tst, val_key)
                  IN  Then(ins, split_arenas_no_narrowing(ins, ib_key, com, val_key, a + 1))

RECURSIVE split_arenas(_, _, _, _, _)
\* `for ar in BIT_MASKS { ... }` from arena a on: the leftovers of ib_key
split_arenas(m, ib_key, com, val_key, a) ==
    IF a > 4 THEN m
    ELSE LET ar  == BIT_MASKS[a]
             tst == BitXor(ib_key, BitAnd(com, ar))
         IN  IF ~ib_doable(tst)
             THEN split_arenas(m, ib_key, com, val_key, a + 1)
             ELSE CHOOSE r \in {split_arenas(ins, narrow, com, val_key, a + 1) :
                                ins \in {MapInsert(m, tst, val_key)},
                                narrow \in {BitOr(BitAndNot(ib_key, ar), BitAnd(com, ar))}} : TRUE

\* `bets_to_ib.into_iter().collect()`: the pairs of the map in the iteration
\* order of a HashMap, which is arbitrary: every order is possible
into_iter_orders(m) ==
    LET pairs == {[ib_bet |-> k, winnings |-> m[k]] : k \in DOMAIN m}
    IN  {s \in [1 .. Cardinality(pairs) -> pairs] :
            \A i, j \in 1 .. Cardinality(pairs) : i # j => s[i] # s[j]}

\* the mutant: the collected pairs are not sorted
pairs_unsorted(ps) == ps

\* `bets_to_ib.sort()`: tuples compare by ib_bet first, and the keys of a map
\* are distinct
pairs_sort(ps) ==
    LET n       == Len(ps)
        rank(i) == Cardinality({j \in 1 .. n : ps[j].ib_bet < ps[i].ib_bet}) + 1
    IN  [r \in 1 .. n |-> ps[CHOOSE i \in 1 .. n : rank(i) = r]]

\* the mutant: the overlapped region stays in the map next to its parts
split_region_not_removed(m, ib_bet, winnings, ib_key) ==
    LET com     == BitAnd(ib_bet, ib_key)
        val_key == m[ib_key]
    IN  split_arenas(MapInsert(m, com, winnings + val_key), ib_key, com, val_key, 0)

\* the body of `for mut ib_key in drained_elements`
split_region(m, ib_bet, winnings, ib_key) ==
    LET com     == BitAnd(ib_bet, ib_key)
        val_key == m[ib_key]
    IN  split_arenas(MapInsert(MapRemove(m, ib_key), com, winnings + val_key),
                     ib_key, com, val_key, 0)

\* 0xFFFFF
WILDCARD == 1048575

RECURSIVE drain_elements(_, _, _, _)
\* `for mut ib_key in drained_elements.into_iter()`: the keys are disjoint
\* regions, each replaced by its own parts, so the map after the loop does
\* not depend on the order the keys are visited in
drain_elements(m, ib_bet, winnings, drained) ==
    IF drained = {} THEN m
    ELSE LET ib_key == CHOOSE k \in drained : \A o \in drained : k <= o
             split  == split_region(m, ib_bet, winnings, ib_key)
         IN  Then(split, drain_elements(split, ib_bet, winnings, drained \ {ib_key}))

RECURSIVE expand_pairs(_, _)
\* `for (ib_bet, winnings) in bets_to_ib.into_iter()` over the sorted pairs
expand_pairs(m, pairs) ==
    IF pairs = <<>> THEN m
    ELSE LET ib_bet  == Head(pairs).ib_bet
             drained == {ib_key \in DOMAIN m : ib_doable(BitAnd(ib_bet, ib_key))}
         IN  expand_pairs(drain_elements(m, ib_bet, Head(pairs).winnings, drained), Tail(pairs))

\* expand_ib_object as one call
expand_ib_object(bs, os) ==
    expand_pairs(MapInsert(EmptyMap, WILDCARD, 0), sorted_pairs(merge_bets(bs, os, 1, EmptyMap)))

----------------------------------------------------------------------------
(* math.rs: the bets hash.  A string is the sequence of its bytes; a       *)
(* Result is [ok, value], an Option is [some, val].                        *)

Ok(v) == [ok |-> TRUE, value |-> v]

\* an Err: the message is not modelled
Err == [ok |-> FALSE, value |-> <<>>]

Some(v) == [some |-> TRUE, val |-> v]

None == [some |-> FALSE, val |-> 0]

\* b'a', b'y', b'z', b'A', b'Z'
LowerA == 97

LowerY == 121

LowerZ == 122

UpperA == 65

UpperZ == 90

RECURSIVE flatten(_, _)
\* `bets_indices.into_iter().flatten()` from the i-th bet on
flatten(bs, i) ==
    IF i > Len(bs) THEN <<>>
    ELSE <<bs[i][0], bs[i][1], bs[i][2], bs[i][3], bs[i][4]>> \o flatten(bs, i + 1)

RECURSIVE hash_chunks(_, _)
\* `chunks_exact(2)` from position i on, each pair mapped to its character;
\* a last element without a partner is dropped
hash_chunks(v, i) ==
    IF i + 1 > Len(v) THEN <<>>
    ELSE <<LowerA + (v[i] * 5 + v[i + 1])>> \o hash_chunks(v, i + 2)

\* the mutant: a list of odd length is not padded with a 0
bets_hash_value_unpadded(bs) == hash_chunks(flatten(bs, 1), 1)

bets_hash_value(bs) ==
    LET len    == Len(bs)
        padded == flatten(bs, 1) \o (IF len % 2 = 1 THEN <<0>> ELSE <<>>)
    IN  hash_chunks(padded, 1)

\* the mutant: the regex is "^[a-z]*$"
bets_hash_regex_check_a_z(h) == \A i \in 1 .. Len(h) : LowerA <= h[i] /\ h[i] <= LowerZ

\* the regex "^[a-y]*$"
bets_hash_regex_check(h) == \A i \in 1 .. Len(h) : LowerA <= h[i] /\ h[i] <= LowerY

RECURSIVE hash_flat_map(_, _)
\* `flat_map(|&e| vec![(e as f64 / 5.0).floor() as u8, e % 5])` from position i on
hash_flat_map(idx, i) ==
    IF i > Len(idx) THEN <<>>
    ELSE <<idx[i] \div 5, idx[i] % 5>> \o hash_flat_map(idx, i + 1)

RECURSIVE resize_zero(_, _)
\* `output.resize(n, 0)`, n >= output.len()
resize_zero(v, n) == IF Len(v) >= n THEN v ELSE resize_zero(Append(v, 0), n)

RECURSIVE hash_filter_chunks(_, _)
\* `chunks(5).filter_map(..)` from position i on: the chunks that are not all 0
hash_filter_chunks(v, i) ==
    IF i > Len(v) THEN <<>>
    ELSE LET chunk == [a \in ARENAS |-> v[i + a]]
         IN  (IF \E a \in ARENAS : chunk[a] > 0 THEN <<chunk>> ELSE <<>>)
             \o hash_filter_chunks(v, i + 5)

bets_hash_to_bet_indices(h) ==
    IF ~bets_hash_regex_check(h) THEN Err
    ELSE LET idx        == [i \in 1 .. Len(h) |-> h[i] - LowerA]
             output     == hash_flat_map(idx, 1)
             difference == Len(output) % 5
             resized    == IF difference # 0
                           THEN resize_zero(output, Len(output) + (5 - difference))
                           ELSE output
         IN  Ok(hash_filter_chunks(resized, 1))

\* bets_hash_to_bets_count: `bets_hash_regex_check(bets_hash)?`, then the
\* length of the decoded list
bets_hash_to_bets_count(h) ==
    IF ~bets_hash_regex_check(h) THEN Err
    ELSE LET r == bets_hash_to_bet_indices(h)
         IN  IF ~r.ok THEN Err ELSE Ok(Len(r.value))

\* bets_hash_to_bet_binaries: `bets_hash_regex_check(bets_hash)?`, then
\* pirates_binary of every decoded selection
bets_hash_to_bet_binaries(h) ==
    IF ~bets_hash_regex_check(h) THEN Err
    ELSE LET r == bets_hash_to_bet_indices(h)
         IN  IF ~r.ok THEN Err
             ELSE Ok([i \in 1 .. Len(r.value) |-> pirates_binary(r.value[i])])

----------------------------------------------------------------------------
(* math.rs: the amounts hash; bets.rs: the stakes of a Bets.               *)

\* the mutant: the stake is encoded without the offset BET_AMOUNT_MAX
amount_state_no_offset(value) == (IF value.some THEN value.val ELSE 0) % BET_AMOUNT_MAX

\* `value.unwrap_or(0) % BET_AMOUNT_MAX + BET_AMOUNT_MAX`
amount_state(value) ==
    ((IF value.some THEN value.val ELSE 0) % BET_AMOUNT_MAX) + BET_AMOUNT_MAX

amount_letter(letter_index) ==
    IF letter_index < 26 THEN letter_index + LowerA ELSE (letter_index + UpperA) - 26

RECURSIVE amount_letters(_, _, _)
\* `for _ in 0..3 { .. }`: n letters of state, written from the end backwards
amount_letters(state, n, acc) ==
    IF n = 0 THEN acc
    ELSE amount_letters(state \div 52, n - 1, <<amount_letter(state % 52)>> \o acc)

RECURSIVE amounts_rev_loop(_, _, _)
\* `for &value in bet_amounts.iter().rev()` from the i-th stake down
amounts_rev_loop(amts, i, acc) ==
    IF i = 0 THEN acc
    ELSE amounts_rev_loop(amts, i - 1, amount_letters(amount_state(amts[i]), 3, <<>>) \o acc)

bet_amounts_to_amounts_hash(amts) == amounts_rev_loop(amts, Len(amts), <<>>)

\* the regex "^[a-zA-Z]*$"
amounts_hash_regex_check(h) ==
    \A i \in 1 .. Len(h) : \/ LowerA <= h[i] /\ h[i] <= LowerZ
                           \/ UpperA <= h[i] /\ h[i] <= UpperZ

RECURSIVE chunk_value(_, _, _, _)
\* `for &byte in chunk { value *= 52; .. value += index; }` over h[i..=last]
chunk_value(h, i, last, value) ==
    IF i > last THEN value
    ELSE chunk_value(h, i + 1, last,
            value * 52 + (IF LowerA <= h[i] /\ h[i] <= LowerZ
                          THEN h[i] - LowerA
                          ELSE (h[i] - UpperA) + 26))

\* the mutant: every decoded value is a stake, also one below BET_AMOUNT_MIN
amount_of_value_unfiltered(value) ==
    Some(IF value > BET_AMOUNT_MAX THEN value - BET_AMOUNT_MAX ELSE 0)

\* `value.saturating_sub(BET_AMOUNT_MAX)`, then `Some(value).filter(|&v| v >= BET_AMOUNT_MIN)`
amount_of_value(value) ==
    LET v == IF value > BET_AMOUNT_MAX THEN value - BET_AMOUNT_MAX ELSE 0
    IN  IF v >= BET_AMOUNT_MIN THEN Some(v) ELSE None

RECURSIVE amount_chunks(_, _)
\* `chunks(3).map(..)` from position i on; the last chunk may be shorter
amount_chunks(h, i) ==
    IF i > Len(h) THEN <<>>
    ELSE LET last == IF i + 2 <= Len(h) THEN i + 2 ELSE Len(h)
         IN  <<amount_of_value(chunk_value(h, i, last, 0))>> \o amount_chunks(h, i + 3)

amounts_hash_to_bet_amounts(h) ==
    IF ~amounts_hash_regex_check(h) THEN Err ELSE Ok(amount_chunks(h, 1))

\* `x.clamp(BET_AMOUNT_MIN, BET_AMOUNT_MAX)`
clamp_amount(x) ==
    IF x < BET_AMOUNT_MIN THEN BET_AMOUNT_MIN
    ELSE IF x > BET_AMOUNT_MAX THEN BET_AMOUNT_MAX ELSE x

RECURSIVE clean_amounts(_)
\* BetAmounts::clean_amounts: the trailing None entries are dropped
clean_amounts(amts) ==
    IF Len(amts) > 0 /\ amts[Len(amts)] = None
    THEN clean_amounts(SubSeq(amts, 1, Len(amts) - 1))
    ELSE amts

\* BetAmounts::to_vec: a Result<Option<Vec<Option<u32>>>, String>
bet_amounts_to_vec(betamount, length) ==
    CASE betamount.kind = "AmountHash" ->
            LET amounts == amounts_hash_to_bet_amounts(betamount.hash)
            IN  IF ~amounts.ok THEN Err ELSE Ok(Some(clean_amounts(amounts.value)))
      [] betamount.kind = "Amounts" -> Ok(Some(clean_amounts(betamount.amounts)))
      [] betamount.kind = "AllSame" ->
            IF length = 0 THEN Ok(None)
            ELSE Ok(Some([i \in 1 .. length |-> Some(clamp_amount(betamount.amount))]))
      [] betamount.kind = "None" -> Ok(None)

\* Bets::set_bet_amounts(amounts), amounts an Option<BetAmounts>: [ok,
\* bet_amounts], bet_amounts being the stakes the Bets holds after the call
set_bet_amounts(b, amounts) ==
    LET betamount == amounts.val
        vec       == bet_amounts_to_vec(betamount, Len(b.array_indices))
    IN  IF ~amounts.some THEN [ok |-> TRUE, bet_amounts |-> None]
        ELSE IF ~vec.ok THEN [ok |-> FALSE, bet_amounts |-> b.bet_amounts]
        ELSE IF ~vec.value.some THEN [ok |-> TRUE, bet_amounts |-> None]
        ELSE IF betamount.kind # "AllSame" /\ Len(vec.value.val) # Len(b.array_indices)
        THEN [ok |-> FALSE, bet_amounts |-> b.bet_amounts]
        ELSE [ok |-> TRUE,
              bet_amounts |-> Some([i \in 1 .. Len(vec.value.val) |->
                                      IF vec.value.val[i].some
                                      THEN Some(clamp_amount(vec.value.val[i].val))
                                      ELSE None])]

\* Bets::amounts_hash: an Option<String>
bets_amounts_hash(b) ==
    IF b.bet_amounts.some THEN Some(bet_amounts_to_amounts_hash(b.bet_amounts.val)) ELSE None

----------------------------------------------------------------------------
(* math.rs: ib_prob and build_chance_objects.  An f64 is an exact          *)
(* fraction [num, den]; sums and differences are kept in lowest terms.     *)

RECURSIVE Gcd(_, _)
Gcd(a, b) == IF b = 0 THEN a ELSE Gcd(b, a % b)

Lcm(a, b) == (a \div Gcd(a, b)) * b

FracZero == [num |-> 0, den |-> 1]

\* the fraction in lowest terms
FracNorm(x) == LET g == Gcd(x.num, x.den) IN [num |-> x.num \div g, den |-> x.den \div g]

\* f64 +
FracAdd(x, y) ==
    LET l == Lcm(x.den, y.den)
    IN  FracNorm([num |-> x.num * (l \div x.den) + y.num * (l \div y.den), den |-> l])

\* f64 -
FracSub(x, y) ==
    LET l == Lcm(x.den, y.den)
    IN  FracNorm([num |-> x.num * (l \div x.den) - y.num * (l \div y.den), den |-> l])

RECURSIVE ar_prob(_, _, _, _, _)
\* `PIR_IB.iter().enumerate().map(..).sum()` from y on, acc being the sum so
\* far: the probs of the competitors of arena x that binary accepts
ar_prob(bin, probs, x, y, acc) ==
    IF y > 3 THEN acc
    ELSE LET sum == FracAdd(acc, IF BitAnd(BitAnd(bin, BIT_MASKS[x]), PIR_IB[y]) > 0
                                 THEN probs[x][y + 1]
                                 ELSE FracZero)
         IN  Then(sum, ar_prob(bin, probs, x, y + 1, sum))

RECURSIVE ib_prob_fold(_, _, _)
\* the fold of ib_prob over the arenas x..4: `total_prob *= ar_prob`, where
\* ar_probs[x] is the ar_prob of arena x
ib_prob_fold(ar_probs, x, total_prob) ==
    IF x > 4 THEN total_prob
    ELSE LET product == FracNorm(FracMul(total_prob, ar_probs[x]))
         IN  Then(product, ib_prob_fold(ar_probs, x + 1, product))

ib_prob(bin, probs) ==
    LET ar_probs == [x \in ARENAS |-> ar_prob(bin, probs, x, 0, FracZero)]
    IN  Then(ar_probs, ib_prob_fold(ar_probs, 0, FracOne))

RECURSIVE win_table_overwrite(_, _, _, _)
\* the mutant: a payout already in the table replaces its probability (= for +=)
win_table_overwrite(expanded, key_probs, keys, tbl) ==
    IF keys = {} THEN tbl
    ELSE LET key == CHOOSE k \in keys : TRUE
             ins == MapInsert(tbl, expanded[key], key_probs[key])
         IN  Then(ins, win_table_overwrite(expanded, key_probs, keys \ {key}, ins))

RECURSIVE win_table_fold(_, _, _, _)
\* `for (key, value) in expanded.iter() { *win_table.entry(*value).or_insert(0.0) += ib_prob(..) }`
\* over the keys not yet visited, where key_probs[key] is ib_prob(key, probabilities)
win_table_fold(expanded, key_probs, keys, tbl) ==
    IF keys = {} THEN tbl
    ELSE LET key   == CHOOSE k \in keys : TRUE
             value == expanded[key]
             ins   == MapInsert(tbl, value,
                          FracAdd(IF value \in DOMAIN tbl THEN tbl[value] ELSE FracZero,
                                  key_probs[key]))
         IN  Then(ins, win_table_fold(expanded, key_probs, keys \ {key}, ins))

RECURSIVE chances_loop_tail_kept(_, _, _)
\* the mutant: tail is not decreased after an entry is pushed
chances_loop_tail_kept(win_table, cumulative, tail) ==
    IF DOMAIN win_table = {} THEN <<>>
    ELSE LET key   == CHOOSE k \in DOMAIN win_table : \A o \in DOMAIN win_table : k <= o
             value == win_table[key]
         IN  <<[value |-> key, probability |-> value,
                cumulative |-> FracAdd(cumulative, value), tail |-> tail]>>
             \o chances_loop_tail_kept(MapRemove(win_table, key), FracAdd(cumulative, value), tail)

RECURSIVE chances_loop_cumulative_late(_, _, _)
\* the mutant: cumulative is increased after the entry is pushed
chances_loop_cumulative_late(win_table, cumulative, tail) ==
    IF DOMAIN win_table = {} THEN <<>>
    ELSE LET key   == CHOOSE k \in DOMAIN win_table : \A o \in DOMAIN win_table : k <= o
             value == win_table[key]
         IN  <<[value |-> key, probability |-> value,
                cumulative |-> cumulative, tail |-> tail]>>
             \o chances_loop_cumulative_late(MapRemove(win_table, key),
                                             FracAdd(cumulative, value), FracSub(tail, value))

RECURSIVE chances_loop(_, _, _)
\* `for (key, value) in win_table.into_iter() { .. }`: the BTreeMap is
\* visited by ascending key
chances_loop(win_table, cumulative, tail) ==
    IF DOMAIN win_table = {} THEN <<>>
    ELSE LET key   == CHOOSE k \in DOMAIN win_table : \A o \in DOMAIN win_table : k <= o
             value == win_table[key]
         IN  <<[value |-> key, probability |-> value,
                cumulative |-> FracAdd(cumulative, value), tail |-> tail]>>
             \o chances_loop(MapRemove(win_table, key),
                             FracAdd(cumulative, value), FracSub(tail, value))

\* build_chance_objects from `expanded`, the map expand_ib_object returned
chances_of_expanded(expanded, probs) ==
    LET key_probs == [key \in DOMAIN expanded |-> ib_prob(key, probs)]
        win_table == win_table_fold(expanded, key_probs, DOMAIN expanded, EmptyMap)
    IN  Then(key_probs, Then(win_table, chances_loop(win_table, FracZero, FracOne)))

\* build_chance_objects as one call
build_chance_objects(bs, os, probs) == chances_of_expanded(expand_ib_object(bs, os), probs)

----------------------------------------------------------------------------
(* odds.rs: Odds::new; bets.rs: Bets::new, from_binaries, is_bustproof,    *)
(* is_guaranteed_win; nfc.rs: make_bets_from_binaries.  `data` is the      *)
(* table nfc.round_dict_data() returns, `probs` is nfc.probabilities().    *)
(* The entry of table index i is at position i + 1 of the table's arrays.  *)

\* `a.probability.total_cmp(&b.probability)` is not Greater
FracLeq(x, y) ==
    LET l == Lcm(x.den, y.den) IN x.num * (l \div x.den) <= y.num * (l \div y.den)

NoChance == [value |-> 0, probability |-> FracZero, cumulative |-> FracZero, tail |-> FracZero]

\* the mutant: the first entry with value > 0 is taken for the most likely
max_by_probability_first(cs, i, acc) == acc

RECURSIVE max_by_probability(_, _, _)
\* `max_by(|a, b| a.probability.total_cmp(&b.probability))` from entry i on:
\* of several maximal entries the last is returned
max_by_probability(cs, i, acc) ==
    IF i > Len(cs) THEN acc
    ELSE max_by_probability(cs, i + 1,
            IF FracLeq(acc.probability, cs[i].probability) THEN cs[i] ELSE acc)

RECURSIVE partial_rate_sum(_, _, _, _)
\* `.filter(|o| 0 < o.value && o.value < amount_of_bets as u32).map(|o| o.probability).sum()`
\* from entry i on, acc being the sum so far
partial_rate_sum(cs, amount_of_bets, i, acc) ==
    IF i > Len(cs) THEN acc
    ELSE LET sum == IF 0 < cs[i].value /\ cs[i].value < amount_of_bets
                    THEN FracAdd(acc, cs[i].probability) ELSE acc
         IN  Then(sum, partial_rate_sum(cs, amount_of_bets, i + 1, sum))

\* Odds::new: [panicked, best, bust, most_likely_winner, partial_rate,
\* chances]; it panics on `.expect(..)` when no entry has a value > 0
odds_new(data, probs, array_indices) ==
    LET amount_of_bets == Len(array_indices)
        pirate_indices == [i \in 1 .. amount_of_bets |->
                              binary_to_indices(data.bins[array_indices[i] + 1])]
        odds_values    == [i \in 1 .. amount_of_bets |-> data.odds[array_indices[i] + 1]]
        cs             == build_chance_objects(pirate_indices, odds_values, probs)
        winning        == SelectSeq(cs, LAMBDA o : o.value > 0)
    IN  [panicked           |-> winning = <<>>,
         best               |-> cs[Len(cs)],
         bust               |-> IF cs[1].value = 0 THEN Some(cs[1]) ELSE None,
         most_likely_winner |-> IF winning = <<>> THEN NoChance
                                ELSE max_by_probability(winning, 2, winning[1]),
         partial_rate       |-> partial_rate_sum(cs, amount_of_bets, 1, FracZero),
         chances            |-> cs]

\* Bets::new: the Bets of the table indices, without stakes; `panicked`
\* when Odds::new panics
bets_new(data, probs, idxs) ==
    [array_indices |-> idxs,
     bet_binaries  |-> [i \in 1 .. Len(idxs) |-> data.bins[idxs[i] + 1]],
     bet_amounts   |-> None,
     odds          |-> odds_new(data, probs, idxs),
     panicked      |-> odds_new(data, probs, idxs).panicked]

\* `data.bins.iter().position(|bin| bin == b)`
bins_position(data, b) ==
    IF \E i \in 1 .. Len(data.bins) : data.bins[i] = b
    THEN Some((CHOOSE i \in 1 .. Len(data.bins) :
                  data.bins[i] = b /\ \A j \in 1 .. i - 1 : data.bins[j] # b) - 1)
    ELSE None

RECURSIVE filter_map_position(_, _, _)
\* `binaries.iter().filter_map(|b| data.bins.iter().position(..)).collect()` from i on
filter_map_position(data, binaries, i) ==
    IF i > Len(binaries) THEN <<>>
    ELSE LET p == bins_position(data, binaries[i])
         IN  (IF p.some THEN <<p.val>> ELSE <<>>) \o filter_map_position(data, binaries, i + 1)

\* Bets::from_binaries
bets_from_binaries(data, probs, binaries) ==
    bets_new(data, probs, filter_map_position(data, binaries, 1))

\* Bets::odds_values
bets_odds_values(b, data) ==
    [i \in 1 .. Len(b.array_indices) |-> data.odds[b.array_indices[i] + 1]]

\* the mutant: the quotient is not rounded up
fill_bet_amounts_floor(b, data, bet_amount) ==
    IF ~bet_amount.some THEN b
    ELSE [b EXCEPT !.bet_amounts =
            Some([i \in 1 .. Len(b.array_indices) |->
                    LET o      == bets_odds_values(b, data)[i]
                        div    == 1000000 \div o
                        least  == IF bet_amount.val < div THEN bet_amount.val ELSE div
                    IN  Some(IF least > BET_AMOUNT_MIN THEN least ELSE BET_AMOUNT_MIN)])]

\* Bets::fill_bet_amounts: the stakes become min(bet_amount, ceil(1_000_000 / odds)),
\* at least BET_AMOUNT_MIN; nothing changes when the round has no bet amount
fill_bet_amounts(b, data, bet_amount) ==
    IF ~bet_amount.some THEN b
    ELSE [b EXCEPT !.bet_amounts =
            Some([i \in 1 .. Len(b.array_indices) |->
                    LET o      == bets_odds_values(b, data)[i]
                        div    == (1000000 \div o) + (IF 1000000 % o > 0 THEN 1 ELSE 0)
                        least  == IF bet_amount.val < div THEN bet_amount.val ELSE div
                    IN  Some(IF least > BET_AMOUNT_MIN THEN least ELSE BET_AMOUNT_MIN)])]

\* NeoFoodClub::make_bets_from_binaries
make_bets_from_binaries(data, probs, bet_amount, binaries) ==
    fill_bet_amounts(bets_from_binaries(data, probs, binaries), data, bet_amount)

\* Bets::is_bustproof
is_bustproof(b) == ~b.odds.bust.some

\* a u32 as the pair of its upper and lower 16 bits
Wide(x) == [hi |-> x \div 65536, lo |-> x % 65536]

WideLt(x, y) == x.hi < y.hi \/ (x.hi = y.hi /\ x.lo < y.lo)

\* the exact product x * y, x < 2^19 and y < 2^24, as [hi, lo] with lo < 2^16:
\* hi >= 2^16 when the product does not fit a u32
mul_exact(x, y) ==
    LET t0     == x * (y % 256)
        t1     == x * ((y \div 256) % 256)
        t2     == x * (y \div 65536)
        lo_sum == (t0 % 65536) + ((t1 % 256) * 256)
    IN  [hi |-> (t0 \div 65536) + (t1 \div 256) + t2 + (lo_sum \div 65536),
         lo |-> lo_sum % 65536]

\* `odds * amount` in u32, wrapped
mul_u32(x, y) == [hi |-> mul_exact(x, y).hi % 65536, lo |-> mul_exact(x, y).lo]

RECURSIVE min_wide(_, _, _)
\* `.min()` of the products from position i on
min_wide(ps, i, acc) ==
    IF i > Len(ps) THEN acc
    ELSE min_wide(ps, i + 1, IF WideLt(ps[i], acc) THEN ps[i] ELSE acc)

RECURSIVE max_amount(_, _, _)
\* `amounts.iter().flatten().max()` from position i on
max_amount(amounts, i, acc) ==
    IF i > Len(amounts) THEN acc
    ELSE max_amount(amounts, i + 1, IF amounts[i].val >= acc THEN amounts[i].val ELSE acc)

\* the mutant: the comparison is the wrong way round
is_guaranteed_win_reversed(b, data, checks) ==
    LET amounts  == b.bet_amounts.val
        n        == Len(amounts)
        products == [i \in 1 .. n |-> mul_u32(data.odds[b.array_indices[i] + 1], amounts[i].val)]
    IN  IF b.odds.bust.some \/ ~b.bet_amounts.some \/ \E i \in 1 .. n : ~amounts[i].some
        THEN [panicked |-> FALSE, value |-> FALSE]
        ELSE [panicked |-> FALSE,
              value    |-> WideLt(min_wide(products, 2, products[1]),
                                  Wide(max_amount(amounts, 2, amounts[1].val)))]

\* Bets::is_guaranteed_win: [panicked, value].  `odds * amount` overflows a
\* u32 when the exact product needs more than 32 bits: a build with overflow
\* checks panics, one without them goes on with the wrapped product.
\* `.max().unwrap()` panics on a Bets without bets.
is_guaranteed_win(b, data, checks) ==
    LET amounts  == b.bet_amounts.val
        n        == Len(amounts)
        ovs      == bets_odds_values(b, data)
        overflow == \E i \in 1 .. n : mul_exact(ovs[i], amounts[i].val).hi >= 65536
        products == [i \in 1 .. n |-> mul_u32(ovs[i], amounts[i].val)]
    IN  IF ~is_bustproof(b) THEN [panicked |-> FALSE, value |-> FALSE]
        ELSE IF ~b.bet_amounts.some THEN [panicked |-> FALSE, value |-> FALSE]
        ELSE IF \E i \in 1 .. n : ~amounts[i].some THEN [panicked |-> FALSE, value |-> FALSE]
        ELSE IF n = 0 \/ (checks /\ overflow) THEN [panicked |-> TRUE, value |-> FALSE]
        ELSE [panicked |-> FALSE,
              value    |-> WideLt(Wide(max_amount(amounts, 2, amounts[1].val)),
                                  min_wide(products, 2, products[1]))]

\* `.clamp(0, 1_000_000)` of a u32 given as [hi, lo]
clamp_million(p) == IF WideLt(Wide(1000000), p) THEN 1000000 ELSE p.hi * 65536 + p.lo

RECURSIVE win_np_fold(_, _, _, _, _)
\* the fold of get_win_np from bet_index on: `acc + (odds * amount).clamp(..)`
\* for the bets whose binary is within winners_binary
win_np_fold(b, data, winners_binary, bet_index, acc) ==
    IF bet_index > Len(b.array_indices) THEN acc
    ELSE LET array_index == b.array_indices[bet_index]
             bet_bin     == data.bins[array_index + 1]
             amount      == IF b.bet_amounts.val[bet_index].some
                            THEN b.bet_amounts.val[bet_index].val ELSE 0
             next        == IF BitAnd(bet_bin, winners_binary) = bet_bin
                            THEN acc + clamp_million(mul_u32(data.odds[array_index + 1], amount))
                            ELSE acc
         IN  Then(next, win_np_fold(b, data, winners_binary, bet_index + 1, next))

\* NeoFoodClub::get_win_np: [panicked, value].  `odds * amount` overflows a
\* u32 when the exact product needs more than 32 bits: a build with overflow
\* checks panics, one without them goes on with the wrapped product.
\* `bet_amounts[bet_index]` panics when the stakes are fewer than the bets.
get_win_np(b, data, winners_arr, checks) ==
    LET winners_binary == pirates_binary(winners_arr)
        winning  == {i \in 1 .. Len(b.array_indices) :
                        BitAnd(data.bins[b.array_indices[i] + 1], winners_binary)
                            = data.bins[b.array_indices[i] + 1]}
        overflow == \E i \in winning :
                        /\ b.bet_amounts.val[i].some
                        /\ mul_exact(data.odds[b.array_indices[i] + 1],
                                     b.bet_amounts.val[i].val).hi >= 65536
    IN  IF ~b.bet_amounts.some THEN [panicked |-> FALSE, value |-> 0]
        ELSE IF winners_binary = 0 THEN [panicked |-> FALSE, value |-> 0]
        ELSE IF \E i \in winning : i > Len(b.bet_amounts.val)
        THEN [panicked |-> TRUE, value |-> 0]
        ELSE IF checks /\ overflow THEN [panicked |-> TRUE, value |-> 0]
        ELSE [panicked |-> FALSE, value |-> win_np_fold(b, data, winners_binary, 1, 0)]

\* Arena::new: the pirates of arena id, `index` being one-indexed, and
\* `odds`, the sum of 1 / current_odds over them (an exact fraction here:
\* the f64 sum can fall on the other side of 1 only when the exact sum is 1
\* up to rounding)
arena_new(currentOdds, id) ==
    LET reciprocal(i) == [num |-> 1, den |-> currentOdds[id][i]]
    IN  [id      |-> id,
         pirates |-> [i \in 1 .. 4 |->
                        [index |-> i, arena_id |-> id, current_odds |-> currentOdds[id][i]]],
         odds    |-> FracAdd(FracAdd(FracAdd(FracAdd(FracZero, reciprocal(1)), reciprocal(2)),
                                     reciprocal(3)),
                             reciprocal(4))]

\* Arena::is_positive: `self.odds < 1.`
is_positive(ar) == ~FracLeq(FracOne, ar.odds)

\* Arena::best: the pirates sorted by current_odds; the sort is stable
arena_best(ar) ==
    LET s       == ar.pirates
        rank(i) == Cardinality({j \in 1 .. 4 :
                       \/ s[j].current_odds < s[i].current_odds
                       \/ (s[j].current_odds = s[i].current_odds /\ j < i)})
    IN  [k \in 1 .. 4 |-> s[CHOOSE i \in 1 .. 4 : rank(i) = k - 1]]

\* Arenas::positives: the positive arenas, sorted by odds; the sort is stable
positives(currentOdds) ==
    LET s       == SelectSeq([i \in 1 .. 5 |-> arena_new(currentOdds, i - 1)], is_positive)
        less(i, j) == ~FracLeq(s[j].odds, s[i].odds)
        rank(i) == Cardinality({j \in 1 .. Len(s) :
                       less(j, i) \/ (~less(i, j) /\ j < i)})
    IN  [k \in 1 .. Len(s) |-> s[CHOOSE i \in 1 .. Len(s) : rank(i) = k - 1]]

\* Pirate::binary: `pirate_binary(self.index + 1, self.arena_id)`
pirate_binary_of(pirate) == pirate_binary(pirate.index + 1, pirate.arena_id)

\* the binaries make_bustproof_bets builds its Bets from, for one, two and
\* three or more positive arenas
bustproof_binaries(pos) ==
    LET best_in_best_arena        == arena_best(pos[1])
        best_pirate_binary        == pirate_binary_of(best_in_best_arena[1])
        worse_in_best_arena       == [i \in 1 .. 3 |-> pirate_binary_of(best_in_best_arena[i + 1])]
    IN  CASE Len(pos) = 1 -> [i \in 1 .. 4 |-> pirate_binary_of(pos[1].pirates[i])]
          [] Len(pos) = 2 ->
                worse_in_best_arena
                \o [i \in 1 .. 4 |-> BitOr(pirate_binary_of(pos[2].pirates[i]), best_pirate_binary)]
          [] Len(pos) >= 3 ->
                LET best_in_second_best_arena == arena_best(pos[2])
                    second_best_pirate_binary == pirate_binary_of(best_in_second_best_arena[1])
                IN  worse_in_best_arena
                    \o [i \in 1 .. 3 |->
                           BitOr(pirate_binary_of(best_in_second_best_arena[i + 1]),
                                 best_pirate_binary)]
                    \o [i \in 1 .. 4 |->
                           BitOr(BitOr(pirate_binary_of(pos[3].pirates[i]), best_pirate_binary),
                                 second_best_pirate_binary)]

\* the table indices of the Bets of make_bustproof_bets
bustproof_indices(data, pos) == filter_map_position(data, bustproof_binaries(pos), 1)

\* `odds.iter().min()`
min_odds(ovs) == CHOOSE m \in {ovs[i] : i \in 1 .. Len(ovs)} : \A i \in 1 .. Len(ovs) : m <= ovs[i]

\* `odds.iter().map(|odd| Some(amount * lowest / odd))`: no product here
\* exceeds BET_AMOUNT_MAX * 13^3, which fits a u32
bustproof_amounts(ovs, amount, lowest) ==
    [i \in 1 .. Len(ovs) |-> Some((amount * lowest) \div ovs[i])]

\* make_bustproof_bets, `if let Some(mut bets) = bets { .. }`: the Bets is
\* given stakes when the round has a bet amount
give_bet_amounts(b, ovs, bet_amount) ==
    IF b.panicked \/ ~bet_amount.some THEN b
    ELSE [b EXCEPT !.bet_amounts = Some(bustproof_amounts(ovs, bet_amount.val, min_odds(ovs)))]

\* make_bustproof_bets with `positives` computed
bustproof_of(data, probs, pos, bet_amount) ==
    IF Len(pos) = 0 THEN None
    ELSE Some(give_bet_amounts(bets_from_binaries(data, probs, bustproof_binaries(pos)),
                               [i \in 1 .. Len(bustproof_indices(data, pos)) |->
                                   data.odds[bustproof_indices(data, pos)[i] + 1]],
                               bet_amount))

\* NeoFoodClub::make_bustproof_bets: an Option<Bets>
make_bustproof_bets(data, probs, currentOdds, bet_amount) ==
    bustproof_of(data, probs, positives(currentOdds), bet_amount)

----------------------------------------------------------------------------
(* The bit encoding as a state machine: one call per behaviour.            *)

NoRet == [panicked |-> FALSE, value |-> 0]

\* the table arguments and result before any call of make_round_dicts
NoMatrix == [a \in ARENAS |-> [p \in 0 .. 4 |-> 0]]

NoRoundDict == [bins |-> <<>>, probs |-> <<>>, odds |-> <<>>, ers |-> <<>>, maxbets |-> <<>>]

NoPair == [ib_bet |-> 0, winnings |-> 0]

\* the state of the components that a specification does not exercise
BitsIdle ==
    /\ overflow_checks = FALSE
    /\ index = 0
    /\ arena = 0
    /\ pb_ret = NoRet
    /\ bets_indices = ZeroSelection
    /\ binary = 0
    /\ indices = ZeroSelection

TableIdle ==
    /\ stds = NoMatrix
    /\ odds = NoMatrix
    /\ round_dict = NoRoundDict

IbIdle ==
    /\ bets = <<>>
    /\ bet_odds = <<>>
    /\ bets_to_ib = <<>>
    /\ ib_cur = NoPair
    /\ drained_elements = {}
    /\ res = EmptyMap

HashIdle ==
    /\ hash_bets = <<>>
    /\ bets_hash = <<>>
    /\ hash_ret = Ok(<<>>)

\* a Bets with no bets and no stakes
NoBets == [array_indices |-> <<>>, bet_amounts |-> None]

AmountIdle ==
    /\ bet_amounts_arg = <<>>
    /\ amounts_hash = <<>>
    /\ amounts_ret = Ok(<<>>)
    /\ bets_obj = NoBets
    /\ set_ret = TRUE
    /\ set_arg = None

DecodeIdle ==
    /\ count_ret = Ok(0)
    /\ binaries_ret = Ok(<<>>)

ChanceIdle ==
    /\ probabilities = NoMatrix
    /\ chances = <<>>

NoOdds ==
    [panicked |-> FALSE, best |-> NoChance, bust |-> None, most_likely_winner |-> NoChance,
     partial_rate |-> FracZero, chances |-> <<>>]

\* no Bets built yet
NoBetSet ==
    [array_indices |-> <<>>, bet_binaries |-> <<>>, bet_amounts |-> None,
     odds |-> NoOdds, panicked |-> FALSE]

\* Modifier::default()
EmptyModifier == [value |-> 0, custom_odds |-> None, custom_time |-> None]

NoRoundData ==
    [currentOdds |-> NoMatrix, openingOdds |-> NoMatrix, customOdds |-> None,
     changes |-> None, start |-> None]

\* u32::count_ones of a value below 2^31
count_ones(x) == Cardinality({b \in 0 .. 30 : (x \div Pow2(b)) % 2 = 1})

\* Modifier::is_general, is_opening_odds, is_reverse, is_charity_corner
is_general(m) == m.value % 2 = 1

is_opening_odds(m) == (m.value \div 2) % 2 = 1

is_reverse(m) == (m.value \div 4) % 2 = 1

is_charity_corner(m) == (m.value \div 8) % 2 = 1

\* NeoFoodClub::max_amount_of_bets
max_amount_of_bets(m) == IF is_charity_corner(m) THEN 15 ELSE 10

\* max_ters, the closure of clamped_max_bets:
\* `x.max(BET_AMOUNT_MIN).min(bet_amount)` over maxbets
clamped_max_bets_of(data, bet_amount) ==
    [i \in 1 .. Len(data.maxbets) |->
        LET x == IF data.maxbets[i] > BET_AMOUNT_MIN THEN data.maxbets[i] ELSE BET_AMOUNT_MIN
        IN  IF x < bet_amount THEN x ELSE bet_amount]

\* max_ters, the closure of net_expected_indices: `mb * er - mb`
net_expected_of(maxbets, ers) ==
    [i \in 1 .. Len(maxbets) |->
        FracSub([num |-> ers[i].num * maxbets[i], den |-> ers[i].den],
                [num |-> maxbets[i], den |-> 1])]

\* max_ters on an object whose caches are empty
max_ters_fresh(data, m, bet_amount) ==
    IF ~is_general(m) /\ bet_amount.some
    THEN net_expected_of(clamped_max_bets_of(data, bet_amount.val), data.ers)
    ELSE data.ers

RECURSIVE common_den(_, _, _)
\* the least common denominator of keys[lo..hi]
common_den(keys, lo, hi) ==
    IF lo = hi THEN keys[lo].den
    ELSE CHOOSE r \in {Lcm(x, y) : x \in {common_den(keys, lo, (lo + hi) \div 2)},
                                   y \in {common_den(keys, ((lo + hi) \div 2) + 1, hi)}} : TRUE

\* the values to sort as numerators over their least common denominator:
\* `a.total_cmp(b)` and `a.cmp(b)` order them as the integers are ordered
sort_keys(keys) ==
    IF keys = <<>> THEN <<>>
    ELSE CHOOSE r \in {[i \in 1 .. Len(keys) |-> keys[i].num * (l \div keys[i].den)] :
                          l \in {common_den(keys, 1, Len(keys))}} : TRUE

\* argsort_by: position x comes before position y in the sorted indices.
\* sort_unstable_by may leave equal elements in any order: `ties` says
\* whether it leaves them by ascending or by descending index.
sorted_before(keys, ties, x, y) ==
    \/ keys[x] < keys[y]
    \/ /\ keys[x] = keys[y]
       /\ IF ties = "ascending" THEN x < y ELSE y < x

RECURSIVE merge_take(_, _, _, _, _, _)
\* the first `amount` positions of two runs of the sorted indices, or of the
\* reversed sorted indices, merged
merge_take(keys, xs, ys, amount, ties, reversed) ==
    IF amount = 0 \/ (xs = <<>> /\ ys = <<>>) THEN <<>>
    ELSE IF ys = <<>> \/ (xs # <<>> /\ sorted_before(keys, ties, xs[1], ys[1]) # reversed)
    THEN <<xs[1]>> \o merge_take(keys, Tail(xs), ys, amount - 1, ties, reversed)
    ELSE <<ys[1]>> \o merge_take(keys, xs, Tail(ys), amount - 1, ties, reversed)

RECURSIVE sorted_top(_, _, _, _, _, _, _)
\* the first `amount` of cands[lo..hi] in the order of the sorted indices, or
\* of the reversed sorted indices
sorted_top(keys, cands, lo, hi, amount, ties, reversed) ==
    IF lo > hi \/ amount = 0 THEN <<>>
    ELSE IF lo = hi THEN <<cands[lo]>>
    ELSE CHOOSE r \in {merge_take(keys, xs, ys, amount, ties, reversed) :
                          xs \in {sorted_top(keys, cands, lo, (lo + hi) \div 2, amount, ties,
                                             reversed)},
                          ys \in {sorted_top(keys, cands, ((lo + hi) \div 2) + 1, hi, amount,
                                             ties, reversed)}} : TRUE

\* `.filter(..).take(amount)` over the sorted indices: the first `amount`
\* of the positions cands, which are the ones the filter keeps
sorted_take(keys, cands, amount, ties, reversed) ==
    CHOOSE r \in {sorted_top(ks, cands, 1, Len(cands), amount, ties, reversed) :
                     ks \in {sort_keys(keys)}} : TRUE

\* NeoFoodClub::make_gambit_bets: [ret, bets]; the assertion panics
make_gambit_bets(data, probs, m, bet_amount, pirates_bin, ties) ==
    IF count_ones(pirates_bin) # 5 THEN [ret |-> "panicked", bets |-> NoBetSet]
    ELSE LET keys    == [i \in 1 .. Len(data.odds) |-> [num |-> data.odds[i], den |-> 1]]
             cands   == SelectSeq([i \in 1 .. Len(data.bins) |-> i],
                                  LAMBDA i : BitAnd(data.bins[i], pirates_bin) = data.bins[i])
             taken   == sorted_take(keys, cands, max_amount_of_bets(m), ties, TRUE)
             made    == bets_new(data, probs, [j \in 1 .. Len(taken) |-> taken[j] - 1])
         IN  [ret  |-> IF made.panicked THEN "panicked" ELSE "Ok",
              bets |-> fill_bet_amounts(made, data, bet_amount)]

\* NeoFoodClub::make_tenbet_bets: [ret, bets]; it panics on an arena with
\* more than one pirate
make_tenbet_bets(data, probs, m, bet_amount, pirates_bin, ties) ==
    LET arena_pirates     == [a \in ARENAS |-> count_ones(BitAnd(pirates_bin, BIT_MASKS[a]))]
        amount_of_pirates == arena_pirates[0] + arena_pirates[1] + arena_pirates[2]
                             + arena_pirates[3] + arena_pirates[4]
        cands   == SelectSeq([i \in 1 .. Len(data.bins) |-> i],
                             LAMBDA i : BitAnd(data.bins[i], pirates_bin) = pirates_bin)
        taken   == sorted_take(max_ters_fresh(data, m, bet_amount), cands,
                               max_amount_of_bets(m), ties, ~is_reverse(m))
        made    == bets_from_binaries(data, probs, [j \in 1 .. Len(taken) |-> data.bins[taken[j]]])
    IN  IF \E a \in ARENAS : arena_pirates[a] > 1
        THEN [ret |-> "panicked", bets |-> NoBetSet]
        ELSE IF amount_of_pirates = 0 \/ amount_of_pirates > 3
        THEN [ret |-> "Err", bets |-> NoBetSet]
        ELSE [ret  |-> IF made.panicked THEN "panicked" ELSE "Ok",
              bets |-> fill_bet_amounts(made, data, bet_amount)]

\* Bets::count_tenbets: the fold starts from u32::MAX, which the first
\* binary replaces
count_tenbets(b) ==
    LET common == {k \in 0 .. 30 :
                      \A i \in 1 .. Len(b.bet_binaries) : (b.bet_binaries[i] \div Pow2(k)) % 2 = 1}
    IN  IF b.bet_binaries = <<>> THEN 32 ELSE Cardinality(common)

\* Bets::is_tenbet
is_tenbet(b) == IF Len(b.bet_binaries) < 10 THEN FALSE ELSE count_tenbets(b) > 0

\* Bets::is_gambit
is_gambit(b) ==
    IF Len(b.array_indices) < 2 THEN FALSE
    ELSE LET highest == CHOOSE x \in {b.bet_binaries[i] : i \in 1 .. Len(b.bet_binaries)} :
                            \A i \in 1 .. Len(b.bet_binaries) : b.bet_binaries[i] <= x
         IN  IF count_ones(highest) # 5 THEN FALSE
             ELSE \A i \in 1 .. Len(b.bet_binaries) :
                      BitAnd(highest, b.bet_binaries[i]) = b.bet_binaries[i]

\* RoundData.pirates: the ids 1..20, four per arena
RoundPirates == [a \in ARENAS |-> [p \in 0 .. 3 |-> 4 * a + p + 1]]

\* PartialEq of two Option values
OptEq(x, y) == x.some = y.some /\ (x.some => x.val = y.val)

\* NeoFoodClub::custom_odds: `customOdds.unwrap_or(*self.current_odds())`
custom_odds(rd) == IF rd.customOdds.some THEN rd.customOdds.val ELSE rd.currentOdds

\* NeoFoodClub::modified
modified(rd) == custom_odds(rd) # rd.currentOdds

\* the hours of a day: times are hours counted from the midnight (NST) of
\* the day the round started
DayHours == 24

RECURSIVE apply_changes(_, _, _)
\* Modifier::apply, `for change in new_changes.iter()`
apply_changes(temp_odds, new_changes, i) ==
    IF i > Len(new_changes) THEN temp_odds
    ELSE apply_changes([temp_odds EXCEPT ![new_changes[i].arena][new_changes[i].pirate] =
                                             new_changes[i].new],
                       new_changes, i + 1)

\* Modifier::apply, opening odds
apply_opening_odds(m, rd) ==
    IF is_opening_odds(m) THEN [rd EXCEPT !.customOdds = Some(rd.openingOdds)] ELSE rd

\* Modifier::apply, custom time: the changes later than the custom time are
\* dropped from round_data.changes
apply_custom_time(m, rd) ==
    IF rd.start.some /\ m.custom_time.some /\ rd.changes.some
    THEN LET naive       == m.custom_time.val
             custom_time == IF naive < rd.start.val THEN naive + DayHours ELSE naive
             new_changes == SelectSeq(rd.changes.val, LAMBDA change : change.t <= custom_time)
         IN  [rd EXCEPT !.changes   = IF new_changes # <<>> THEN Some(new_changes) ELSE None,
                        !.customOdds = Some(apply_changes(rd.openingOdds, new_changes, 1))]
    ELSE rd

\* Modifier::apply, custom odds: a map from pirate id to odds
apply_custom_odds(m, rd) ==
    IF m.custom_odds.some
    THEN LET temp_odds == custom_odds(rd)
         IN  [rd EXCEPT !.customOdds =
                 Some([a \in ARENAS |-> [p \in 0 .. 4 |->
                     IF p > 0 /\ RoundPirates[a][p - 1] \in DOMAIN m.custom_odds.val
                     THEN m.custom_odds.val[RoundPirates[a][p - 1]]
                     ELSE temp_odds[a][p]]])]
    ELSE rd

\* Modifier::apply
apply(m, rd) == apply_custom_odds(m, apply_custom_time(m, apply_opening_odds(m, rd)))

\* NeoFoodClub::with_modifier, its condition to clear the caches
clears_caches(current_modifier, rd, m) ==
    \/ modified(rd)
    \/ ~OptEq(current_modifier.custom_odds, m.custom_odds)
    \/ ~OptEq(current_modifier.custom_time, m.custom_time)
    \/ is_opening_odds(current_modifier) # is_opening_odds(m)

\* NeoFoodClub::max_ters with the OnceCells as they are: what it returns
\* and what the cells hold afterwards
max_ters(data, m, bet_amount, clamped_cell, net_cell) ==
    IF ~is_general(m) /\ bet_amount.some
    THEN LET maxbets == IF clamped_cell.some THEN clamped_cell.val
                        ELSE clamped_max_bets_of(data, bet_amount.val)
             new_ers == IF net_cell.some THEN net_cell.val
                        ELSE net_expected_of(maxbets, data.ers)
         IN  [ret |-> new_ers, clamped_max_bets |-> Some(maxbets),
              net_expected_indices |-> Some(new_ers)]
    ELSE [ret |-> data.ers, clamped_max_bets |-> clamped_cell, net_expected_indices |-> net_cell]

\* NeoFoodClub::make_max_ter_bets, use_ers being what max_ters() returns
make_max_ter_bets(data, probs, m, bet_amount, use_ers, ties) ==
    LET taken == sorted_take(use_ers, [i \in 1 .. Len(data.bins) |-> i],
                             max_amount_of_bets(m), ties, ~is_reverse(m))
    IN  fill_bet_amounts(bets_new(data, probs, [j \in 1 .. Len(taken) |-> taken[j] - 1]),
                         data, bet_amount)

NfcIdle ==
    /\ modifier = EmptyModifier
    /\ winners = ZeroSelection
    /\ pirates_binary_arg = 0
    /\ sort_ties = "ascending"
    /\ gen_ret = "Ok"
    /\ np_ret = [panicked |-> FALSE, value |-> 0]
    /\ original = NoRoundData
    /\ round_data = NoRoundData
    /\ data_cell = None
    /\ clamped_max_bets = None
    /\ net_expected_indices = None
    /\ max_ters_ret = <<>>

BetsIdle ==
    /\ nfc_bet_amount = None
    /\ binaries_arg = <<>>
    /\ bet_set = NoBetSet
    /\ win_ret = [panicked |-> FALSE, value |-> FALSE]
    /\ bustproof_ret = None
    /\ NfcIdle

InitBits ==
    /\ pc = "idle"
    /\ overflow_checks \in BOOLEAN
    /\ index = 0
    /\ arena = 0
    /\ pb_ret = NoRet
    /\ bets_indices = ZeroSelection
    /\ binary = 0
    /\ indices = ZeroSelection
    /\ TableIdle
    /\ IbIdle
    /\ HashIdle
    /\ AmountIdle
    /\ DecodeIdle
    /\ ChanceIdle
    /\ BetsIdle

CallPirateBinary ==
    /\ pc = "idle"
    /\ \E i \in 0 .. U8Max, a \in 0 .. U8Max :
          /\ index' = i
          /\ arena' = a
          /\ pb_ret' = pirate_binary_call(i, a, overflow_checks)
    /\ pc' = "pirate_binary"
    /\ UNCHANGED <<overflow_checks, bets_indices, binary, indices, bitFrame>>

CallPiratesBinary ==
    /\ pc = "idle"
    /\ \E s \in Selections :
          /\ bets_indices' = s
          /\ binary' = pirates_binary(s)
    /\ pc' = "pirates_binary"
    /\ UNCHANGED <<overflow_checks, index, arena, pb_ret, indices, bitFrame>>

CallBinaryToIndices ==
    /\ pc = "pirates_binary"
    /\ indices' = binary_to_indices(binary)
    /\ pc' = "binary_to_indices"
    /\ UNCHANGED <<overflow_checks, index, arena, pb_ret, bets_indices, binary, bitFrame>>

NextBits == CallPirateBinary \/ CallPiratesBinary \/ CallBinaryToIndices

SpecBits == InitBits /\ [][NextBits]_vars

\* the mask the data model gives a selection: position p of arena a is the
\* bit 0x80000 >> (4a + p - 1), an unpicked arena has no bit
SelectionBits(sel) == {19 - (4 * a + sel[a] - 1) : a \in {x \in ARENAS : sel[x] # 0}}

RECURSIVE SumPow2(_)
SumPow2(S) == IF S = {} THEN 0 ELSE LET b == CHOOSE x \in S : TRUE
                                    IN  Pow2(b) + SumPow2(S \ {b})

Nibble(bin, a) == (bin \div Pow2(4 * (4 - a))) % 16

\* C3: binary_to_indices(pirates_binary(s)) = s for every selection s in
\* {0..4}^5; every mask of pirates_binary has at most one bit in each of the
\* five nibbles, position p of arena a being the bit 0x80000 >> (4a + p - 1);
\* pirates_binary([1,0,0,0,0]) = 0x80000.
C3_RoundTrip ==
    /\ pc \in {"pirates_binary", "binary_to_indices"} =>
          /\ binary = SumPow2(SelectionBits(bets_indices))
          /\ \A a \in ARENAS : Nibble(binary, a) \in {0, 1, 2, 4, 8}
          /\ bets_indices = [a \in ARENAS |-> IF a = 0 THEN 1 ELSE 0] => binary = TOP_BIT
    /\ pc = "binary_to_indices" => indices = bets_indices

\* a round trip of the selection [0,1,2,3,4], whose mask is 0x08421
C3_Witness ==
    /\ pc = "binary_to_indices"
    /\ bets_indices = [a \in ARENAS |-> a]
    /\ binary = 33825
    /\ indices = bets_indices

\* C4: pirate_binary has no error outcome: for every u8 position and every
\* u8 arena it returns a value without failing (no shift or multiplication
\* overflow), and it returns 0 whenever the position is 0 or outside 1..4.
C4_NoErrorOutcome ==
    pc = "pirate_binary" =>
        /\ ~pb_ret.panicked
        /\ ~pirate_binary_overflows(index, arena)
        /\ index \notin 1 .. 4 => pb_ret.value = 0

----------------------------------------------------------------------------
(* The table builder as a state machine: make_round_dicts called once on a *)
(* round's matrices.                                                       *)

\* the payout factors of one arena: column 0 is the placeholder 1, columns
\* 1..4 lie in 2..13
OddsRows == {Arr5(1, 13, 13, 13, 13), Arr5(1, 2, 3, 8, 10)}

OddsMatrices == [ARENAS -> OddsRows]

Frac(n, d) == [num |-> n, den |-> d]

\* the probabilities of one arena, in tenths: column 0 is the placeholder 1.0
StdRows == {Arr5(Frac(10, 10), Frac(1, 10), Frac(2, 10), Frac(3, 10), Frac(4, 10)),
            Arr5(Frac(10, 10), Frac(4, 10), Frac(3, 10), Frac(2, 10), Frac(1, 10))}

StdMatrices == {[a \in ARENAS |-> row] : row \in StdRows}

InitTable ==
    /\ pc = "idle"
    /\ BitsIdle
    /\ IbIdle
    /\ HashIdle
    /\ AmountIdle
    /\ DecodeIdle
    /\ ChanceIdle
    /\ BetsIdle
    /\ stds \in StdMatrices
    /\ odds \in OddsMatrices
    /\ round_dict = NoRoundDict

CallMakeRoundDicts ==
    /\ pc = "idle"
    /\ round_dict' = make_round_dicts(stds, odds)
    /\ pc' = "make_round_dicts"
    /\ UNCHANGED <<stds, odds, tableFrame>>

NextTable == CallMakeRoundDicts

SpecTable == InitTable /\ [][NextTable]_vars

\* the masks of all selections but the all-zero one
NonZeroMasks == {pirates_binary(sel) : sel \in Selections \ {ZeroSelection}}

Range(f) == {f[i] : i \in DOMAIN f}

\* C5: make_round_dicts returns five index-aligned arrays of exactly 3,124
\* entries; the masks are pairwise distinct, never 0, and are exactly the
\* masks pirates_binary gives the selections other than [0,0,0,0,0].
C5_TableComplete ==
    pc = "make_round_dicts" =>
        /\ Len(round_dict.bins) = 3124
        /\ Len(round_dict.probs) = 3124
        /\ Len(round_dict.odds) = 3124
        /\ Len(round_dict.ers) = 3124
        /\ Len(round_dict.maxbets) = 3124
        /\ 0 \notin Range(round_dict.bins)
        /\ Cardinality(Range(round_dict.bins)) = Len(round_dict.bins)
        /\ Range(round_dict.bins) = NonZeroMasks

\* a built table whose first mask is that of [0,0,0,0,1] and whose last is
\* that of [4,4,4,4,4]
C5_Witness ==
    /\ pc = "make_round_dicts"
    /\ Len(round_dict.bins) = 3124
    /\ round_dict.bins[1] = 8
    /\ round_dict.bins[3124] = 69905

\* the arenas a selection picks a competitor in
Picked(sel) == {a \in ARENAS : sel[a] # 0}

RECURSIVE OddsProduct(_, _, _)
\* the product of the chosen competitors' payout factors over the arenas S
OddsProduct(sel, od, S) ==
    IF S = {} THEN 1
    ELSE LET a == CHOOSE x \in S : TRUE
         IN  od[a][sel[a]] * OddsProduct(sel, od, S \ {a})

RECURSIVE ProbProduct(_, _, _)
\* the product of the chosen competitors' probabilities over the arenas S
ProbProduct(sel, std, S) ==
    IF S = {} THEN FracOne
    ELSE LET a == CHOOSE x \in S : TRUE
         IN  FracMul(std[a][sel[a]], ProbProduct(sel, std, S \ {a}))

\* C6: in every entry of the table built from a payout matrix with entries
\* in 2..13, odds is the product of the chosen competitors' payout factors
\* (an unselected arena contributes 1), so 2 <= odds <= 13^5 = 371,293;
\* probability is the product of the chosen competitors' probabilities (an
\* unselected arena contributes 1); maxbets is the integer ceiling of
\* 1,000,000 / odds, not the truncated quotient.
C6_EntryValues ==
    pc = "make_round_dicts" =>
        \A i \in 1 .. Len(round_dict.bins) :
            LET sel == binary_to_indices(round_dict.bins[i])
                o   == round_dict.odds[i]
                m   == round_dict.maxbets[i]
            IN  /\ o = OddsProduct(sel, odds, Picked(sel))
                /\ 2 <= o /\ o <= 371293
                /\ round_dict.probs[i] = ProbProduct(sel, stds, Picked(sel))
                /\ m * o >= 1000000
                /\ (m - 1) * o < 1000000

\* a table with the largest odds 13^5 (maxbets 3, the quotient being 2.69)
\* and with a single pick of odds 13 (maxbets 76,924, the quotient 76,923.08)
C6_Witness ==
    /\ pc = "make_round_dicts"
    /\ \E i \in 1 .. Len(round_dict.bins) :
          /\ round_dict.odds[i] = 371293
          /\ round_dict.maxbets[i] = 3
    /\ \E j \in 1 .. Len(round_dict.bins) :
          /\ round_dict.bins[j] = TOP_BIT
          /\ round_dict.odds[j] = 13
          /\ round_dict.maxbets[j] = 76924
          /\ round_dict.probs[j].den = 10

----------------------------------------------------------------------------
(* The reducer as a state machine: expand_ib_object on one bet list, one   *)
(* step per overlapped region.  The regions overlapped by a bet are        *)
(* visited in the iteration order of a HashMap, which is arbitrary.        *)

MaxBets == 3

MaxBetOdds == 3

\* the selections the bet lists are drawn from: no pick at all, a single
\* pick, two picks that overlap it in part, and five picks that exclude the
\* single pick and lie inside the two
IbSelections ==
    {ZeroSelection, Arr5(1, 0, 0, 0, 0), Arr5(0, 2, 0, 0, 1), Arr5(2, 2, 3, 4, 1)}

InitIb ==
    /\ pc = "idle"
    /\ BitsIdle
    /\ TableIdle
    /\ HashIdle
    /\ AmountIdle
    /\ DecodeIdle
    /\ ChanceIdle
    /\ BetsIdle
    /\ \E n \in 0 .. MaxBets :
          /\ bets \in [1 .. n -> IbSelections]
          /\ bet_odds \in [1 .. n -> {1, MaxBetOdds}]
    /\ bets_to_ib = <<>>
    /\ ib_cur = NoPair
    /\ drained_elements = {}
    /\ res = EmptyMap

\* the first loop, `res.insert(0xFFFFF, 0)`, the sort
IbStart ==
    /\ pc = "idle"
    /\ \E collected \in into_iter_orders(merge_bets(bets, bet_odds, 1, EmptyMap)) :
          bets_to_ib' = pairs_sort(collected)
    /\ res' = MapInsert(EmptyMap, WILDCARD, 0)
    /\ pc' = "next_bet"
    /\ UNCHANGED <<bets, bet_odds, ib_cur, drained_elements, ibFrame>>

\* the head of `for (ib_bet, winnings) in bets_to_ib`: collect drained_elements
IbNextBet ==
    /\ pc = "next_bet"
    /\ bets_to_ib # <<>>
    /\ ib_cur' = Head(bets_to_ib)
    /\ bets_to_ib' = Tail(bets_to_ib)
    /\ drained_elements' = {ib_key \in DOMAIN res : ib_doable(BitAnd(Head(bets_to_ib).ib_bet, ib_key))}
    /\ pc' = IF drained_elements' = {} THEN "next_bet" ELSE "drain"
    /\ UNCHANGED <<bets, bet_odds, res, ibFrame>>

\* one iteration of `for mut ib_key in drained_elements`
IbDrainOne ==
    /\ pc = "drain"
    /\ \E ib_key \in drained_elements :
          /\ res' = split_region(res, ib_cur.ib_bet, ib_cur.winnings, ib_key)
          /\ drained_elements' = drained_elements \ {ib_key}
          /\ pc' = IF drained_elements = {ib_key} THEN "next_bet" ELSE "drain"
    /\ UNCHANGED <<bets, bet_odds, bets_to_ib, ib_cur, ibFrame>>

\* `res` is returned
IbReturn ==
    /\ pc = "next_bet"
    /\ bets_to_ib = <<>>
    /\ pc' = "done"
    /\ UNCHANGED <<ibVars, ibFrame>>

NextIb == IbStart \/ IbNextBet \/ IbDrainOne \/ IbReturn

SpecIb == InitIb /\ [][NextIb]_vars

\* the 1,024 concrete winner combinations, one competitor 1..4 per arena
Winners == [ARENAS -> 1 .. 4]

WinnerMasks == {pirates_binary(w) : w \in Winners}

\* a region key accepts a winner combination when it holds the winner's bit
\* of every arena
Accepts(ib_key, winners_binary) == BitAnd(ib_key, winners_binary) = winners_binary

\* a bet wins when each of its picks is the winner of its arena: get_win_units'
\* `bet_bin & winners_binary == bet_bin`
BetWins(bet_bin, winners_binary) == BitAnd(bet_bin, winners_binary) = bet_bin

\* no bet is partly processed
IbBetBoundary == pc \in {"next_bet", "done"}

\* C1: after expand_ib_object has fully processed each bet, the keys of the
\* map partition the outcome space: each of the 1,024 winner combinations is
\* accepted by exactly one key, and every key is doable.
C1_Partition ==
    IbBetBoundary =>
        /\ \A w \in WinnerMasks : Cardinality({k \in DOMAIN res : Accepts(k, w)}) = 1
        /\ \A k \in DOMAIN res : ib_doable(k)

\* two different bets, both processed, have split the domain into more than
\* two regions
C1_Witness ==
    /\ pc = "done"
    /\ Len(bets) = 2
    /\ bets[1] # bets[2]
    /\ Cardinality(DOMAIN res) > 2
    /\ \A w \in WinnerMasks : Cardinality({k \in DOMAIN res : Accepts(k, w)}) = 1

RECURSIVE WinUnits(_, _, _, _)
\* the odds of the bets from i on that win under the winners w, summed
WinUnits(bs, os, w, i) ==
    IF i > Len(bs) THEN 0
    ELSE (IF BetWins(pirates_binary(bs[i]), w) THEN os[i] ELSE 0) + WinUnits(bs, os, w, i + 1)

\* C2: for every winner combination w, the payout stored under the region
\* that accepts w is the sum, over the bets of the list with multiplicity, of
\* the odds of the bets whose every pick is w's winner of its arena; bets with
\* the same pattern contribute the sum of their odds.
C2_Payout ==
    pc = "done" =>
        \A w \in WinnerMasks :
            \A k \in DOMAIN res : Accepts(k, w) => res[k] = WinUnits(bets, bet_odds, w, 1)

\* two bets with the same selection: the region of their pattern pays the sum
C2_Witness ==
    /\ pc = "done"
    /\ Len(bets) = 2
    /\ bets[1] = bets[2]
    /\ bets[1] # ZeroSelection
    /\ \E k \in DOMAIN res : res[k] = bet_odds[1] + bet_odds[2] /\ k = bet_pattern(bets[1])
    /\ \E k \in DOMAIN res : res[k] = 0

\* the bet lists of InitIb whose odds are 1, MaxBetOdds, 1 in this order
InitIbFair ==
    /\ InitIb
    /\ bet_odds = [i \in 1 .. Len(bets) |-> IF i % 2 = 1 THEN 1 ELSE MaxBetOdds]

\* the reducer under weak fairness of its steps: a call that has started runs
\* until it returns
SpecIbFair == InitIbFair /\ [][NextIb]_vars /\ WF_vars(NextIb)

\* the part of ib_key inside arena a that the bet's pattern leaves out
ArenaLeftOut(ib_key, com, a) == BitAndNot(BitAnd(ib_key, BIT_MASKS[a]), com)

\* one overlapped region is processed: it is replaced by com and at most one
\* leftover per arena, each carrying the old payout, and every other region
\* keeps its key and payout
RegionSplit ==
    \E ib_key \in drained_elements \ drained_elements' :
        LET com   == BitAnd(ib_cur.ib_bet, ib_key)
            kept  == DOMAIN res \ {ib_key}
            parts == DOMAIN res' \ kept
            left  == parts \ {com}
        IN  /\ drained_elements' = drained_elements \ {ib_key}
            /\ kept \subseteq DOMAIN res'
            /\ \A k \in kept : res'[k] = res[k]
            /\ ib_key # com => ib_key \notin DOMAIN res'
            /\ com \in parts
            /\ res'[com] = res[ib_key] + ib_cur.winnings
            /\ Cardinality(parts) <= 6
            /\ \A t \in left :
                  /\ res'[t] = res[ib_key]
                  /\ \E a \in ARENAS :
                        BitAnd(t, BIT_MASKS[a]) = ArenaLeftOut(ib_key, com, a)
            /\ \A a \in ARENAS :
                  Cardinality({t \in left :
                      BitAnd(t, BIT_MASKS[a]) = ArenaLeftOut(ib_key, com, a)}) <= 1

\* the regions that do not overlap the bet being processed
NotOverlapped(m, ib_bet) == {k \in DOMAIN m : ~ib_doable(BitAnd(ib_bet, k))}

\* C25: expand_ib_object terminates; while a bet is processed each overlapped
\* region is removed and replaced by its intersection with the bet's pattern
\* plus at most one leftover region per arena (at most 6 regions); the
\* regions that do not overlap the bet keep their key and payout; the number
\* of regions never decreases and never exceeds 1,024.
C25_SplitsAndTerminates ==
    /\ <>(pc = "done")
    /\ [](Cardinality(DOMAIN res) <= 1024)
    /\ [][/\ Cardinality(DOMAIN res') >= Cardinality(DOMAIN res)
          /\ pc = "drain" =>
                /\ RegionSplit
                /\ \A k \in NotOverlapped(res, ib_cur.ib_bet) :
                      k \in DOMAIN res' /\ res'[k] = res[k]]_vars

\* a region overlapped in part has been split into the intersection and
\* leftovers, next to a region the bet does not overlap
C25_Witness ==
    /\ pc = "done"
    /\ Len(bets) = 3
    /\ Cardinality(DOMAIN res) > 6
    /\ \E k \in DOMAIN res : res[k] = 0

\* C29: the map expand_ib_object returns is the same for every permutation
\* of the bet list with its odds, and whatever the order in which the
\* overlapped regions are visited and the pairs of the merged map are
\* collected.
C29_OrderIndependent ==
    pc = "done" =>
        \A p \in Permutations(1 .. Len(bets)) :
            res = expand_ib_object([i \in 1 .. Len(bets) |-> bets[p[i]]],
                                   [i \in 1 .. Len(bets) |-> bet_odds[p[i]]])

\* three bets of three different patterns and different odds have been
\* reduced
C29_Witness ==
    /\ pc = "done"
    /\ Len(bets) = 3
    /\ Cardinality({bet_pattern(bets[i]) : i \in 1 .. 3}) = 3
    /\ bet_odds[1] # bet_odds[2]
    /\ Cardinality(DOMAIN res) > 3

----------------------------------------------------------------------------
(* The bets hash as a state machine: a list of selections is encoded, the  *)
(* hash is decoded.                                                        *)

MaxHashBets == 3

\* the selections the longer lists are drawn from
HashSelections ==
    {ZeroSelection, Arr5(1, 0, 0, 0, 0), Arr5(0, 0, 0, 0, 1), Arr5(4, 4, 4, 4, 4),
     Arr5(1, 2, 3, 4, 0), Arr5(0, 4, 3, 2, 1), Arr5(2, 0, 4, 0, 3), Arr5(0, 0, 3, 0, 0)}

\* every list of one selection, and every list of up to MaxHashBets
\* selections of HashSelections
HashBetLists ==
    [1 .. 1 -> Selections] \cup UNION {[1 .. n -> HashSelections] : n \in 0 .. MaxHashBets}

InitBetsHash ==
    /\ pc = "idle"
    /\ BitsIdle
    /\ TableIdle
    /\ IbIdle
    /\ AmountIdle
    /\ DecodeIdle
    /\ ChanceIdle
    /\ BetsIdle
    /\ hash_bets \in HashBetLists
    /\ bets_hash = <<>>
    /\ hash_ret = Ok(<<>>)

CallBetsHashValue ==
    /\ pc = "idle"
    /\ bets_hash' = bets_hash_value(hash_bets)
    /\ pc' = "bets_hash_value"
    /\ UNCHANGED <<hash_bets, hash_ret, hashFrame>>

CallBetsHashToBetIndices ==
    /\ pc = "bets_hash_value"
    /\ hash_ret' = bets_hash_to_bet_indices(bets_hash)
    /\ pc' = "bets_hash_to_bet_indices"
    /\ UNCHANGED <<hash_bets, bets_hash, hashFrame>>

NextBetsHash == CallBetsHashValue \/ CallBetsHashToBetIndices

SpecBetsHash == InitBetsHash /\ [][NextBetsHash]_vars

\* no selection of the list is all-zero
NoZeroSelection(bs) == \A i \in 1 .. Len(bs) : bs[i] # ZeroSelection

\* C7: for every list L of selections none of which is all-zero,
\* bets_hash_to_bet_indices(bets_hash_value(L)) = L (order and duplicates
\* kept, odd and even lengths), and bets_hash_value(L) has only characters
\* 'a'..'y' and the length ceil(5 * |L| / 2).
C7_BetsHashRoundTrip ==
    NoZeroSelection(hash_bets) =>
        /\ pc \in {"bets_hash_value", "bets_hash_to_bet_indices"} =>
              /\ \A i \in 1 .. Len(bets_hash) : bets_hash[i] \in LowerA .. LowerY
              /\ Len(bets_hash) = (5 * Len(hash_bets) + 1) \div 2
        /\ pc = "bets_hash_to_bet_indices" =>
              /\ hash_ret.ok
              /\ hash_ret.value = hash_bets

\* a list of odd length with a duplicate, whose first selection ends in 0 and
\* whose last begins with 0, decoded
C7_Witness ==
    /\ pc = "bets_hash_to_bet_indices"
    /\ hash_bets = <<Arr5(1, 2, 3, 4, 0), Arr5(0, 0, 0, 0, 1), Arr5(0, 0, 0, 0, 1)>>
    /\ Len(bets_hash) = 8
    /\ hash_ret = Ok(hash_bets)

----------------------------------------------------------------------------
(* The amounts hash as a state machine: a list of stakes is encoded and    *)
(* the hash decoded; or a Bets is given stakes, its amounts_hash() taken   *)
(* and decoded.                                                            *)

MaxAmounts == 3

\* the stakes the longer lists are drawn from
AmountPool ==
    {None, Some(0), Some(BET_AMOUNT_MIN), Some(50), Some(BET_AMOUNT_MAX - 1),
     Some(BET_AMOUNT_MAX), Some(BET_AMOUNT_MAX + 1)}

\* the stake list of the documentation of bet_amounts_to_amounts_hash
ExampleAmounts == <<Some(50), Some(100), Some(150), Some(200), Some(250)>>

\* "AaYAbWAcUAdSAeQ"
ExampleAmountsHash == <<65, 97, 89, 65, 98, 87, 65, 99, 85, 65, 100, 83, 65, 101, 81>>

AmountPoolLists == UNION {[1 .. n -> AmountPool] : n \in 0 .. MaxAmounts}

\* every list of one stake up to twice BET_AMOUNT_MAX, the lists of up to
\* MaxAmounts stakes of AmountPool, and the documented example
AmountLists ==
    {<<Some(x)>> : x \in 0 .. 2 * BET_AMOUNT_MAX + 1} \cup AmountPoolLists \cup {ExampleAmounts}

\* the arguments of Bets::set_bet_amounts
BetAmountsArgs ==
    {None, Some([kind |-> "None"])}
    \cup {Some([kind |-> "AllSame", amount |-> x]) : x \in 0 .. BET_AMOUNT_MAX + 1}
    \cup {Some([kind |-> "Amounts", amounts |-> l]) : l \in AmountPoolLists}
    \cup {Some([kind |-> "AmountHash", hash |-> h]) : h \in {ExampleAmountsHash, <<LowerA, 33, LowerA>>,
                bet_amounts_to_amounts_hash(<<Some(50), None>>)}}

InitAmounts ==
    /\ pc = "idle"
    /\ BitsIdle
    /\ TableIdle
    /\ IbIdle
    /\ HashIdle
    /\ AmountIdle
    /\ DecodeIdle
    /\ ChanceIdle
    /\ BetsIdle

CallBetAmountsToAmountsHash ==
    /\ pc = "idle"
    /\ \E l \in AmountLists :
          /\ bet_amounts_arg' = l
          /\ amounts_hash' = bet_amounts_to_amounts_hash(l)
    /\ pc' = "bet_amounts_to_amounts_hash"
    /\ UNCHANGED <<amounts_ret, bets_obj, set_ret, set_arg, amountFrame>>

\* Bets::new on the first n entries of the table: no stakes
BetsNew ==
    /\ pc = "idle"
    /\ \E n \in 0 .. MaxAmounts :
          bets_obj' = [array_indices |-> [i \in 1 .. n |-> i - 1], bet_amounts |-> None]
    /\ pc' = "bets_new"
    /\ UNCHANGED <<bet_amounts_arg, amounts_hash, amounts_ret, set_ret, set_arg, amountFrame>>

BetsSetBetAmounts ==
    /\ pc = "bets_new"
    /\ \E amounts \in BetAmountsArgs :
          LET r == set_bet_amounts(bets_obj, amounts)
          IN  /\ bets_obj' = [bets_obj EXCEPT !.bet_amounts = r.bet_amounts]
              /\ set_ret' = r.ok
              /\ set_arg' = amounts
    /\ pc' = "set_bet_amounts"
    /\ UNCHANGED <<bet_amounts_arg, amounts_hash, amounts_ret, amountFrame>>

\* Bets::amounts_hash() of a Bets that has stakes
BetsAmountsHash ==
    /\ pc = "set_bet_amounts"
    /\ bets_amounts_hash(bets_obj).some
    /\ amounts_hash' = bets_amounts_hash(bets_obj).val
    /\ pc' = "amounts_hash"
    /\ UNCHANGED <<bet_amounts_arg, amounts_ret, bets_obj, set_ret, set_arg, amountFrame>>

CallAmountsHashToBetAmounts ==
    /\ pc \in {"bet_amounts_to_amounts_hash", "amounts_hash"}
    /\ amounts_ret' = amounts_hash_to_bet_amounts(amounts_hash)
    /\ pc' = IF pc = "amounts_hash" THEN "amounts_hash_decoded" ELSE "amounts_hash_to_bet_amounts"
    /\ UNCHANGED <<bet_amounts_arg, amounts_hash, bets_obj, set_ret, set_arg, amountFrame>>

NextAmounts ==
    \/ CallBetAmountsToAmountsHash
    \/ BetsNew
    \/ BetsSetBetAmounts
    \/ BetsAmountsHash
    \/ CallAmountsHashToBetAmounts

SpecAmounts == InitAmounts /\ [][NextAmounts]_vars

\* the list an explicit argument of set_bet_amounts supplies: the Vec of
\* Amounts, the decoded list of an AmountHash
SuppliedAmounts(betamount) ==
    IF betamount.kind = "Amounts" THEN betamount.amounts
    ELSE amounts_hash_to_bet_amounts(betamount.hash).value

\* the argument is an Amounts, or an AmountHash that decodes
ExplicitAmounts(amounts) ==
    /\ amounts.some
    /\ \/ amounts.val.kind = "Amounts"
       \/ /\ amounts.val.kind = "AmountHash"
          /\ amounts_hash_to_bet_amounts(amounts.val.hash).ok

\* C26: set_bet_amounts with an explicit list (Amounts, or a decoded
\* AmountHash) returns an error exactly when the length of the supplied list
\* differs from the number of bets, and then the stored bet_amounts is what
\* it was (None, as Bets::new left it); AllSame never errors; after Ok every
\* defined stake is in BET_AMOUNT_MIN..BET_AMOUNT_MAX.
C26_ErrorIffLengthDiffers ==
    pc = "set_bet_amounts" =>
        /\ ExplicitAmounts(set_arg) =>
              (~set_ret <=> Len(SuppliedAmounts(set_arg.val)) # Len(bets_obj.array_indices))
        /\ ~set_ret => bets_obj.bet_amounts = None
        /\ (set_arg.some /\ set_arg.val.kind = "AllSame") => set_ret
        /\ (set_ret /\ bets_obj.bet_amounts.some) =>
              \A i \in 1 .. Len(bets_obj.bet_amounts.val) :
                  bets_obj.bet_amounts.val[i].some =>
                      bets_obj.bet_amounts.val[i].val \in BET_AMOUNT_MIN .. BET_AMOUNT_MAX

----------------------------------------------------------------------------
(* The amounts hash: what is checked.                                      *)

\* "abcdefghijklmnopqrstuvwxyzABCDEFGHIJKLMNOPQRSTUVWXYZ": digit d is Alphabet[d + 1]
Alphabet ==
    <<97, 98, 99, 100, 101, 102, 103, 104, 105, 106, 107, 108, 109,
      110, 111, 112, 113, 114, 115, 116, 117, 118, 119, 120, 121, 122,
      65, 66, 67, 68, 69, 70, 71, 72, 73, 74, 75, 76, 77,
      78, 79, 80, 81, 82, 83, 84, 85, 86, 87, 88, 89, 90>>

\* the stake an entry of a stake list stands for: an absent stake is 0
StakeOf(entry) == IF entry.some THEN entry.val ELSE 0

\* the three characters of the base-52 number n, most significant first
Base52Group(n) ==
    <<Alphabet[(n \div (52 * 52)) + 1], Alphabet[((n \div 52) % 52) + 1], Alphabet[(n % 52) + 1]>>

\* C8: bet_amounts_to_amounts_hash writes, for every stake (an absent one as
\* 0), exactly three characters of a-z, A-Z: the three base-52 digits, most
\* significant first, of (stake mod 70304) + 70304, a number below 52^3; the
\* hash is three times as long as the stake list, and the stakes
\* [50, 100, 150, 200, 250] give "AaYAbWAcUAdSAeQ".
C8_AmountsHashFormat ==
    pc \in {"bet_amounts_to_amounts_hash", "amounts_hash_to_bet_amounts"} =>
        /\ Len(amounts_hash) = 3 * Len(bet_amounts_arg)
        /\ \A i \in 1 .. Len(bet_amounts_arg) :
              LET n == (StakeOf(bet_amounts_arg[i]) % 70304) + 70304
              IN  /\ n < 52 * 52 * 52
                  /\ SubSeq(amounts_hash, 3 * i - 2, 3 * i) = Base52Group(n)
        /\ (bet_amounts_arg = ExampleAmounts => amounts_hash = ExampleAmountsHash)

\* the documented example has been encoded
C8_Witness ==
    /\ pc = "bet_amounts_to_amounts_hash"
    /\ bet_amounts_arg = ExampleAmounts
    /\ amounts_hash = ExampleAmountsHash

\* C9: decoding the hash of a stake list gives back every stake s with
\* 1 <= s <= 70303, and gives None for a stake of 0 and for an absent stake.
C9_AmountsRoundTrip ==
    pc = "amounts_hash_to_bet_amounts" =>
        /\ amounts_ret.ok
        /\ Len(amounts_ret.value) = Len(bet_amounts_arg)
        /\ \A i \in 1 .. Len(bet_amounts_arg) :
              LET entry == bet_amounts_arg[i]
              IN  /\ (entry.some /\ 1 <= entry.val /\ entry.val <= 70303)
                        => amounts_ret.value[i] = entry
                  /\ (~entry.some \/ entry.val = 0) => amounts_ret.value[i] = None

\* a list with the largest stake below BET_AMOUNT_MAX, an absent stake and a
\* stake of 0 has been encoded and decoded
C9_Witness ==
    /\ pc = "amounts_hash_to_bet_amounts"
    /\ bet_amounts_arg = <<Some(70303), None, Some(0)>>
    /\ amounts_ret = Ok(<<Some(70303), None, None>>)

\* C10: for every stake s with 1 <= s <= 70304 that a Bets holds, decoding
\* the Bets' amounts_hash() gives Some(s) for that bet.
C10_FullRangeRoundTrip ==
    pc = "amounts_hash_decoded" =>
        /\ amounts_ret.ok
        /\ Len(amounts_ret.value) = Len(bets_obj.bet_amounts.val)
        /\ \A i \in 1 .. Len(bets_obj.bet_amounts.val) :
              LET entry == bets_obj.bet_amounts.val[i]
              IN  (entry.some /\ 1 <= entry.val /\ entry.val <= 70304)
                     => amounts_ret.value[i] = entry

----------------------------------------------------------------------------
(* The decoders on arbitrary strings.                                      *)

MaxHashLen == 4

\* the characters of the strings: '\n', '@', 'A', 'Z', '[', '`', 'a', 'f',
\* 'y', 'z', '{', and a character that is not ASCII
HashChars == {10, 64, UpperA, UpperZ, 91, 96, LowerA, 102, LowerY, LowerZ, 123, 240}

HashStrings == UNION {[1 .. n -> HashChars] : n \in 0 .. MaxHashLen}

InitDecode ==
    /\ pc = "idle"
    /\ BitsIdle
    /\ TableIdle
    /\ IbIdle
    /\ HashIdle
    /\ AmountIdle
    /\ DecodeIdle
    /\ ChanceIdle
    /\ BetsIdle

DecodeAmountsHash ==
    /\ pc = "idle"
    /\ \E h \in HashStrings :
          /\ amounts_hash' = h
          /\ amounts_ret' = amounts_hash_to_bet_amounts(h)
    /\ pc' = "amounts_hash_to_bet_amounts"
    /\ UNCHANGED <<bitVars, tableVars, ibVars, hashVars, decodeVars, chanceVars,
                   betsVars, nfcVars, bet_amounts_arg, bets_obj, set_ret, set_arg>>

DecodeBetIndices ==
    /\ pc = "idle"
    /\ \E h \in HashStrings :
          /\ bets_hash' = h
          /\ hash_ret' = bets_hash_to_bet_indices(h)
    /\ pc' = "bets_hash_to_bet_indices"
    /\ UNCHANGED <<hash_bets, hashFrame>>

DecodeBetsCount ==
    /\ pc = "idle"
    /\ \E h \in HashStrings :
          /\ bets_hash' = h
          /\ count_ret' = bets_hash_to_bets_count(h)
    /\ pc' = "bets_hash_to_bets_count"
    /\ UNCHANGED <<bitVars, tableVars, ibVars, amountVars, chanceVars, betsVars, nfcVars,
                   hash_bets, hash_ret, binaries_ret>>

DecodeBetBinaries ==
    /\ pc = "idle"
    /\ \E h \in HashStrings :
          /\ bets_hash' = h
          /\ binaries_ret' = bets_hash_to_bet_binaries(h)
    /\ pc' = "bets_hash_to_bet_binaries"
    /\ UNCHANGED <<bitVars, tableVars, ibVars, amountVars, chanceVars, betsVars, nfcVars,
                   hash_bets, hash_ret, count_ret>>

NextDecode ==
    \/ DecodeAmountsHash
    \/ DecodeBetIndices
    \/ DecodeBetsCount
    \/ DecodeBetBinaries

SpecDecode == InitDecode /\ [][NextDecode]_vars

\* every character of the string is one of a-z, A-Z
OverAmountsAlphabet(h) == \A i \in 1 .. Len(h) : h[i] \in (97 .. 122) \cup (65 .. 90)

\* every character of the string is one of a..y
OverBetsAlphabet(h) == \A i \in 1 .. Len(h) : h[i] \in 97 .. 121

\* C11: amounts_hash_to_bet_amounts returns Ok exactly for the strings over
\* a-z, A-Z whose length is a multiple of 3, and an error for every other
\* string: one with a character outside the alphabet, or of another length.
C11_LengthChecked ==
    pc = "amounts_hash_to_bet_amounts" =>
        (amounts_ret.ok <=> (OverAmountsAlphabet(amounts_hash) /\ Len(amounts_hash) % 3 = 0))

\* a decoded selection: entries in 0..4, not all of them 0
ValidSelection(sel) ==
    /\ DOMAIN sel = 0 .. 4
    /\ \A a \in 0 .. 4 : sel[a] \in 0 .. 4
    /\ \E a \in 0 .. 4 : sel[a] # 0

\* C12: bets_hash_to_bet_indices, bets_hash_to_bets_count and
\* bets_hash_to_bet_binaries return an error for every string with a
\* character outside a..y and Ok for every string over a..y, the empty one
\* (no bets) included; every decoded selection has entries in 0..4 and is not
\* all-zero, the count is the number of decoded selections and the binaries
\* are theirs.
C12_BetsHashDecodeErrors ==
    /\ pc = "bets_hash_to_bet_indices" =>
          /\ hash_ret.ok <=> OverBetsAlphabet(bets_hash)
          /\ hash_ret.ok => \A i \in 1 .. Len(hash_ret.value) : ValidSelection(hash_ret.value[i])
          /\ bets_hash = <<>> => hash_ret = Ok(<<>>)
          /\ ~hash_ret.ok => hash_ret = Err
    /\ pc = "bets_hash_to_bets_count" =>
          /\ count_ret.ok <=> OverBetsAlphabet(bets_hash)
          /\ count_ret.ok =>
                count_ret.value = Cardinality({k \in 0 .. (2 * Len(bets_hash) - 1) \div 5 :
                                                 \E j \in 1 .. Len(bets_hash) :
                                                    \/ (2 * j - 2) \div 5 = k /\ (bets_hash[j] - 97) \div 5 # 0
                                                    \/ (2 * j - 1) \div 5 = k /\ (bets_hash[j] - 97) % 5 # 0})
          /\ ~count_ret.ok => count_ret = Err
    /\ pc = "bets_hash_to_bet_binaries" =>
          /\ binaries_ret.ok <=> OverBetsAlphabet(bets_hash)
          /\ binaries_ret.ok =>
                \A i \in 1 .. Len(binaries_ret.value) :
                    /\ binaries_ret.value[i] # 0
                    /\ \A a \in 0 .. 4 : Nibble(binaries_ret.value[i], a) \in {0, 1, 2, 4, 8}
          /\ ~binaries_ret.ok => binaries_ret = Err

\* "fy" has been decoded to the one selection [1, 0, 4, 4, 0]
C12_Witness ==
    /\ pc = "bets_hash_to_bet_indices"
    /\ bets_hash = <<102, 121>>
    /\ hash_ret = Ok(<<Arr5(1, 0, 4, 4, 0)>>)

----------------------------------------------------------------------------
(* build_chance_objects as a state machine: expand_ib_object's steps, then *)
(* the two loops over its result.                                          *)

MaxChanceBets == 2

ChanceSelections ==
    {Arr5(1, 0, 0, 0, 0), Arr5(2, 0, 0, 0, 0), Arr5(0, 2, 0, 0, 0), Arr5(1, 3, 0, 0, 4)}

\* the win probabilities of one arena: column 0 is the placeholder 1.0,
\* columns 1..4 sum to 1
ProbRows ==
    StdRows \cup {Arr5(Frac(1, 1), Frac(1, 1), Frac(0, 1), Frac(0, 1), Frac(0, 1)),
                  Arr5(Frac(1, 1), Frac(1, 4), Frac(1, 4), Frac(1, 4), Frac(1, 4))}

ProbMatrices ==
    {[a \in ARENAS |-> row] : row \in ProbRows}
    \cup {[a \in ARENAS |-> Arr5(Frac(1, 1), Frac(a + 1, 10), Frac(2, 10), Frac(1, 10), Frac(6 - a, 10))]}

InitChance ==
    /\ pc = "idle"
    /\ BitsIdle
    /\ TableIdle
    /\ HashIdle
    /\ AmountIdle
    /\ DecodeIdle
    /\ BetsIdle
    /\ \E n \in 0 .. MaxChanceBets :
          /\ bets \in [1 .. n -> ChanceSelections]
          /\ bet_odds \in [1 .. n -> {2, 3}]
    /\ bets_to_ib = <<>>
    /\ ib_cur = NoPair
    /\ drained_elements = {}
    /\ res = EmptyMap
    /\ probabilities \in ProbMatrices
    /\ chances = <<>>

\* the rest of build_chance_objects, once expand_ib_object has returned
ChanceBuild ==
    /\ pc = "done"
    /\ chances' = chances_of_expanded(res, probabilities)
    /\ pc' = "build_chance_objects"
    /\ UNCHANGED <<probabilities, chanceFrame>>

NextChance == IbStart \/ IbNextBet \/ IbDrainOne \/ IbReturn \/ ChanceBuild

SpecChance == InitChance /\ [][NextChance]_vars

\* x <= y
FracLe(x, y) ==
    LET l == Lcm(x.den, y.den) IN x.num * (l \div x.den) <= y.num * (l \div y.den)

\* columns 1..4 of every row sum to 1
RowNormalized(probs) ==
    \A a \in ARENAS :
        FracAdd(FracAdd(probs[a][1], probs[a][2]), FracAdd(probs[a][3], probs[a][4])) = FracOne

RECURSIVE SumProbability(_, _)
\* the sum of the probabilities of the entries i.. of a Chance table
SumProbability(cs, i) ==
    IF i > Len(cs) THEN FracZero ELSE FracAdd(cs[i].probability, SumProbability(cs, i + 1))

RECURSIVE OutcomePayout(_, _, _, _)
\* the payout of the bets i.. when the winners are w (w[a + 1] the winner of
\* arena a): the odds of the bets each of whose picks is the winner of its arena
OutcomePayout(bs, os, w, i) ==
    IF i > Len(bs) THEN 0
    ELSE (IF \A a \in ARENAS : bs[i][a] \in {0, w[a + 1]} THEN os[i] ELSE 0)
         + OutcomePayout(bs, os, w, i + 1)

RECURSIVE OutcomeMass(_, _)
\* the total probability of the winner combinations that extend w (the
\* winners of the arenas 0 .. Len(w) - 1) and pay v
OutcomeMass(w, v) ==
    IF Len(w) = 5
    THEN IF OutcomePayout(bets, bet_odds, w, 1) = v THEN FracOne ELSE FracZero
    ELSE LET a == Len(w)
             M(p) == FracNorm(FracMul(probabilities[a][p], OutcomeMass(Append(w, p), v)))
         IN  FracAdd(FracAdd(M(1), M(2)), FracAdd(M(3), M(4)))

\* C14: the probability of the Chance entry of value v is the total
\* probability of the winner combinations whose payout from the bets is v; a
\* value is in the table iff a region (equally: a winner combination) has
\* that payout; the bet [1,0,0,0,0] with odds 2 and a win probability 0.4
\* gives the entries (0, 0.6) and (2, 0.4).
C14_ChanceProbabilities ==
    pc = "build_chance_objects" =>
        /\ \A i \in 1 .. Len(chances) :
              chances[i].probability = OutcomeMass(<<>>, chances[i].value)
        /\ {chances[i].value : i \in 1 .. Len(chances)} = Range(res)
        /\ {chances[i].value : i \in 1 .. Len(chances)}
              = {OutcomePayout(bets, bet_odds, w, 1) : w \in [1 .. 5 -> 1 .. 4]}
        /\ (bets = <<Arr5(1, 0, 0, 0, 0)>> /\ bet_odds = <<2>> /\ probabilities[0][1] = Frac(4, 10)) =>
              /\ Len(chances) = 2
              /\ chances[1].value = 0 /\ chances[1].probability = Frac(3, 5)
              /\ chances[2].value = 2 /\ chances[2].probability = Frac(2, 5)

\* the table of the example has been built
C14_Witness ==
    /\ pc = "build_chance_objects"
    /\ bets = <<Arr5(1, 0, 0, 0, 0)>> /\ bet_odds = <<2>> /\ probabilities[0][1] = Frac(4, 10)
    /\ Len(chances) = 2

\* C15: with no bets expand_ib_object returns the map {0xFFFFF: 0}, and
\* build_chance_objects on a matrix whose rows sum to 1 returns the one
\* entry of value 0, probability 1, cumulative 1 and tail 1.
C15_EmptyBetList ==
    (bets = <<>> /\ RowNormalized(probabilities)) =>
        /\ pc \in {"done", "build_chance_objects"} => res = [k \in {1048575} |-> 0]
        /\ pc = "build_chance_objects" =>
              chances = <<[value |-> 0, probability |-> FracOne,
                           cumulative |-> FracOne, tail |-> FracOne]>>

\* the table of no bets has been built
C15_Witness ==
    /\ pc = "build_chance_objects"
    /\ bets = <<>>
    /\ RowNormalized(probabilities)
    /\ Len(chances) = 1

----------------------------------------------------------------------------
(* Bets of a round: a NeoFoodClub whose probabilities, odds and table are  *)
(* stds, odds and round_dict; Bets are built, staked and asked whether     *)
(* they are a guaranteed win.                                              *)

MaxSetBets == 2

\* the table index of a selection: the nested loops push the selections in
\* ascending order of a*625 + b*125 + c*25 + d*5 + e, [0,0,0,0,0] left out
table_index(sel) == (sel[0] * 625 + sel[1] * 125 + sel[2] * 25 + sel[3] * 5 + sel[4]) - 1

\* the bet on competitor p of arena a alone
SingleBet(a, p) == [x \in ARENAS |-> IF x = a THEN p ELSE 0]

\* the four single-competitor bets of arena a
ArenaSingles(a) == [p \in 1 .. 4 |-> table_index(SingleBet(a, p))]

BetsSelections ==
    {Arr5(1, 0, 0, 0, 0), Arr5(2, 0, 0, 0, 0), Arr5(0, 2, 0, 0, 0), Arr5(1, 3, 0, 0, 4),
     Arr5(1, 1, 1, 1, 1)}

\* the lists of table indices Bets are built from: none, up to MaxSetBets of
\* BetsSelections, the four singles of an arena, the first three singles of
\* arena 0, and the four singles of arena 0 with the bet on the first
\* competitor of every arena
IndexLists ==
    UNION {[1 .. n -> {table_index(sel) : sel \in BetsSelections}] : n \in 0 .. MaxSetBets}
    \cup {ArenaSingles(a) : a \in ARENAS}
    \cup {SubSeq(ArenaSingles(0), 1, 3)}
    \cup {ArenaSingles(0) \o <<table_index(Arr5(1, 1, 1, 1, 1))>>}

\* payout factors: the first competitors' factors multiply to 61,236
OverflowOdds ==
    [a \in ARENAS |-> <<Arr5(1, 12, 2, 3, 4), Arr5(1, 9, 13, 2, 5), Arr5(1, 9, 4, 6, 8),
                        Arr5(1, 9, 2, 2, 2), Arr5(1, 7, 11, 10, 3)>>[a + 1]]

BetsOddsMatrices ==
    {[a \in ARENAS |-> row] : row \in OddsRows \cup {Arr5(1, 2, 2, 2, 2), Arr5(1, 5, 7, 11, 13)}}
    \cup {OverflowOdds}

RECURSIVE LcmOf(_, _)
LcmOf(s, i) == IF i > Len(s) THEN 1 ELSE Lcm(s[i], LcmOf(s, i + 1))

\* stakes that make stake x odds the same for every bet
EqualReturnStakes(os) == [i \in 1 .. Len(os) |-> Some(LcmOf(os, 1) \div os[i])]

\* the arguments of set_bet_amounts for a Bets of n bets with the odds os
StakeArgs(os) ==
    {None}
    \cup {Some([kind |-> "AllSame", amount |-> x]) : x \in {0, 50, 70138, BET_AMOUNT_MAX}}
    \cup {Some([kind |-> "Amounts", amounts |-> l]) :
            l \in {EqualReturnStakes(os),
                   [i \in 1 .. Len(os) |-> IF i = 1 THEN None ELSE Some(50)],
                   [i \in 1 .. Len(os) |-> Some(100 * i)],
                   <<Some(50)>>}}

\* stake lists written to the public field bet_amounts, which skips the clamp
FieldStakes(n) ==
    {[i \in 1 .. n |-> Some(0)], [i \in 1 .. n |-> IF i = n THEN Some(0) ELSE Some(50)]}

\* 0x80000, 0x8000, 0x800, 0x80, 0x8, 0x80000: the list of
\* test_make_bets_from_binaries_with_duplicate
DuplicateBinaries == <<524288, 32768, 2048, 128, 8, 524288>>

\* lists of bet binaries; 0 and 0xC0000 are binaries of no selection
BinaryLists ==
    UNION {[1 .. n -> {524288, 32768, 8, 0, 786432}] : n \in 0 .. MaxSetBets}
    \cup {DuplicateBinaries}

InitBets ==
    /\ pc = "idle"
    /\ overflow_checks \in BOOLEAN
    /\ index = 0
    /\ arena = 0
    /\ pb_ret = NoRet
    /\ bets_indices = ZeroSelection
    /\ binary = 0
    /\ indices = ZeroSelection
    /\ IbIdle
    /\ HashIdle
    /\ AmountIdle
    /\ DecodeIdle
    /\ ChanceIdle
    /\ stds \in StdMatrices
    /\ odds \in BetsOddsMatrices
    /\ round_dict = make_round_dicts(stds, odds)
    /\ nfc_bet_amount \in {None, Some(5000)}
    /\ binaries_arg = <<>>
    /\ bet_set = NoBetSet
    /\ win_ret = [panicked |-> FALSE, value |-> FALSE]
    /\ bustproof_ret = None
    /\ NfcIdle

\* Bets::new(nfc, indices)
NewBets ==
    /\ pc = "idle"
    /\ \E idxs \in IndexLists : bet_set' = bets_new(round_dict, stds, idxs)
    /\ pc' = IF bet_set'.panicked THEN "panicked" ELSE "Bets::new"
    /\ UNCHANGED <<nfc_bet_amount, binaries_arg, win_ret, bustproof_ret, betsFrame>>

\* NeoFoodClub::make_bets_from_binaries(binaries)
MakeBetsFromBinaries ==
    /\ pc = "idle"
    /\ \E binaries \in BinaryLists :
          /\ binaries_arg' = binaries
          /\ bet_set' = make_bets_from_binaries(round_dict, stds, nfc_bet_amount, binaries)
    /\ pc' = IF bet_set'.panicked THEN "panicked" ELSE "make_bets_from_binaries"
    /\ UNCHANGED <<nfc_bet_amount, win_ret, bustproof_ret, betsFrame>>

\* Bets::set_bet_amounts(amounts)
SetBetAmounts ==
    /\ pc = "Bets::new"
    /\ \E amounts \in StakeArgs(bets_odds_values(bet_set, round_dict)) :
          bet_set' = [bet_set EXCEPT !.bet_amounts = set_bet_amounts(bet_set, amounts).bet_amounts]
    /\ pc' = "set_bet_amounts"
    /\ UNCHANGED <<nfc_bet_amount, binaries_arg, win_ret, bustproof_ret, betsFrame>>

\* `bets.bet_amounts = Some(..)`: the field is public
AssignBetAmounts ==
    /\ pc = "Bets::new"
    /\ \E amounts \in FieldStakes(Len(bet_set.array_indices)) :
          bet_set' = [bet_set EXCEPT !.bet_amounts = Some(amounts)]
    /\ pc' = "set_bet_amounts"
    /\ UNCHANGED <<nfc_bet_amount, binaries_arg, win_ret, bustproof_ret, betsFrame>>

\* Bets::fill_bet_amounts(nfc) on a Bets that has stakes or none
FillBetAmounts ==
    /\ pc \in {"Bets::new", "set_bet_amounts"}
    /\ bet_set' = fill_bet_amounts(bet_set, round_dict, nfc_bet_amount)
    /\ pc' = "fill_bet_amounts"
    /\ UNCHANGED <<nfc_bet_amount, binaries_arg, win_ret, bustproof_ret, betsFrame>>

\* Bets::is_guaranteed_win(nfc)
IsGuaranteedWin ==
    /\ pc \in {"Bets::new", "set_bet_amounts", "make_bets_from_binaries", "make_bustproof_bets"}
    /\ win_ret' = is_guaranteed_win(bet_set, round_dict, overflow_checks)
    /\ pc' = "is_guaranteed_win"
    /\ UNCHANGED <<nfc_bet_amount, binaries_arg, bet_set, bustproof_ret, betsFrame>>

NextBets ==
    \/ NewBets
    \/ MakeBetsFromBinaries
    \/ SetBetAmounts
    \/ AssignBetAmounts
    \/ FillBetAmounts
    \/ IsGuaranteedWin

SpecBets == InitBets /\ [][NextBets]_vars

----------------------------------------------------------------------------
(* get_win_np on a round that has winners or none, for Bets with stakes.   *)

\* round_data.winners: none yet, the first pirate of every arena, the last
WinnerLists == {ZeroSelection, Arr5(1, 1, 1, 1, 1), Arr5(4, 4, 4, 4, 4)}

InitWinNp ==
    /\ pc = "idle"
    /\ overflow_checks \in BOOLEAN
    /\ index = 0
    /\ arena = 0
    /\ pb_ret = NoRet
    /\ bets_indices = ZeroSelection
    /\ binary = 0
    /\ indices = ZeroSelection
    /\ IbIdle
    /\ HashIdle
    /\ AmountIdle
    /\ DecodeIdle
    /\ ChanceIdle
    /\ stds = [a \in ARENAS |->
                  Arr5(Frac(10, 10), Frac(1, 10), Frac(2, 10), Frac(3, 10), Frac(4, 10))]
    /\ odds \in {OverflowOdds, [a \in ARENAS |-> Arr5(1, 13, 13, 13, 13)]}
    /\ round_dict = make_round_dicts(stds, odds)
    /\ nfc_bet_amount \in {None, Some(5000)}
    /\ binaries_arg = <<>>
    /\ bet_set = NoBetSet
    /\ win_ret = [panicked |-> FALSE, value |-> FALSE]
    /\ bustproof_ret = None
    /\ modifier = EmptyModifier
    /\ winners \in WinnerLists
    /\ pirates_binary_arg = 0
    /\ sort_ties = "ascending"
    /\ gen_ret = "Ok"
    /\ np_ret = [panicked |-> FALSE, value |-> 0]
    /\ original = NoRoundData
    /\ round_data = NoRoundData
    /\ data_cell = None
    /\ clamped_max_bets = None
    /\ net_expected_indices = None
    /\ max_ters_ret = <<>>

\* NeoFoodClub::get_win_np(bets)
GetWinNp ==
    /\ pc \in {"Bets::new", "set_bet_amounts", "fill_bet_amounts"}
    /\ np_ret' = get_win_np(bet_set, round_dict, winners, overflow_checks)
    /\ pc' = IF np_ret'.panicked THEN "panicked" ELSE "get_win_np"
    /\ UNCHANGED <<modifier, winners, pirates_binary_arg, sort_ties, gen_ret, objVars,
                   tableVars, betsVars, nfcFrame>>

NextWinNp ==
    \/ NewBets
    \/ SetBetAmounts
    \/ FillBetAmounts
    \/ GetWinNp

SpecWinNp == InitWinNp /\ [][NextWinNp]_vars

----------------------------------------------------------------------------
(* make_gambit_bets and make_tenbet_bets on a fresh NeoFoodClub.           *)

\* pirates binaries with five bits: one pirate per arena (0x88888, 0x11111,
\* 0x84218), four pirates of arena 0 and one of arena 1 (0xF8000); with four
\* bits (0x88880) and with six (0x8888C)
GambitBinaries == {559240, 69905, 541208, 1015808, 559232, 559244}

\* pirates binaries with no pirate, with one (0x80000), two (0x08100) and
\* three (0x00421) in different arenas, with four (0x88880) and five
\* (0x88888), and with two pirates of one arena (0xC0000, 0xC8880)
TenbetBinaries == {0, 524288, 33024, 1057, 559232, 559240, 786432, 821376}

\* no flag, GENERAL, REVERSE, CHARITY_CORNER
GenModifiers == {[EmptyModifier EXCEPT !.value = v] : v \in {0, 1, 4, 8}}

InitGen ==
    /\ pc = "idle"
    /\ overflow_checks = FALSE
    /\ index = 0
    /\ arena = 0
    /\ pb_ret = NoRet
    /\ bets_indices = ZeroSelection
    /\ binary = 0
    /\ indices = ZeroSelection
    /\ IbIdle
    /\ HashIdle
    /\ AmountIdle
    /\ DecodeIdle
    /\ ChanceIdle
    /\ stds = [a \in ARENAS |-> Arr5(Frac(4, 4), Frac(1, 4), Frac(1, 4), Frac(1, 4), Frac(1, 4))]
    /\ odds \in {OverflowOdds, [a \in ARENAS |-> Arr5(1, 2, 2, 13, 13)]}
    /\ round_dict = make_round_dicts(stds, odds)
    /\ nfc_bet_amount \in {None, Some(5000)}
    /\ binaries_arg = <<>>
    /\ bet_set = NoBetSet
    /\ win_ret = [panicked |-> FALSE, value |-> FALSE]
    /\ bustproof_ret = None
    /\ modifier \in GenModifiers
    /\ winners = ZeroSelection
    /\ pirates_binary_arg = 0
    /\ sort_ties \in {"ascending", "descending"}
    /\ gen_ret = "Ok"
    /\ np_ret = [panicked |-> FALSE, value |-> 0]
    /\ original = NoRoundData
    /\ round_data = NoRoundData
    /\ data_cell = None
    /\ clamped_max_bets = None
    /\ net_expected_indices = None
    /\ max_ters_ret = <<>>

\* NeoFoodClub::make_gambit_bets(pirates_binary)
MakeGambitBets ==
    /\ pc = "idle"
    /\ \E pirates_bin \in GambitBinaries :
          \E made \in {make_gambit_bets(round_dict, stds, modifier, nfc_bet_amount, pirates_bin,
                                        sort_ties)} :
              /\ pirates_binary_arg' = pirates_bin
              /\ gen_ret' = made.ret
              /\ bet_set' = made.bets
    /\ pc' = "make_gambit_bets"
    /\ UNCHANGED <<modifier, winners, sort_ties, np_ret, objVars, tableVars, nfc_bet_amount,
                   binaries_arg, win_ret, bustproof_ret, nfcFrame>>

\* NeoFoodClub::make_tenbet_bets(pirates_binary)
MakeTenbetBets ==
    /\ pc = "idle"
    /\ \E pirates_bin \in TenbetBinaries :
          \E made \in {make_tenbet_bets(round_dict, stds, modifier, nfc_bet_amount, pirates_bin,
                                        sort_ties)} :
              /\ pirates_binary_arg' = pirates_bin
              /\ gen_ret' = made.ret
              /\ bet_set' = made.bets
    /\ pc' = "make_tenbet_bets"
    /\ UNCHANGED <<modifier, winners, sort_ties, np_ret, objVars, tableVars, nfc_bet_amount,
                   binaries_arg, win_ret, bustproof_ret, nfcFrame>>

NextGen == MakeGambitBets \/ MakeTenbetBets

SpecGen == InitGen /\ [][NextGen]_vars

----------------------------------------------------------------------------
(* A NeoFoodClub object under set_bet_amount, with_modifier, max_ters and  *)
(* make_max_ter_bets.                                                      *)

\* a round that started at 10:00 with two odds changes, at 12:00 and at
\* 20:00, and the same round without its start and changes
NfcRounds ==
    LET opening == [a \in ARENAS |-> Arr5(1, 2, 3, 5, 13)]
        current == [opening EXCEPT ![0][1] = 4, ![1][2] = 6]
    IN  {[currentOdds |-> current, openingOdds |-> opening, customOdds |-> None,
          changes |-> Some(<<[t |-> 12, arena |-> 0, pirate |-> 1, old |-> 2, new |-> 4],
                             [t |-> 20, arena |-> 1, pirate |-> 2, old |-> 3, new |-> 6]>>),
          start |-> Some(10)],
         [currentOdds |-> current, openingOdds |-> opening, customOdds |-> None,
          changes |-> None, start |-> None]}

\* the empty modifier, GENERAL, OPENING_ODDS, the custom times 11:00 (before
\* the first change), 15:00 (between the changes) and 05:00 (of the next
\* day, after both), and custom odds for the pirate of id 1
NfcModifiers ==
    {[EmptyModifier EXCEPT !.value = v] : v \in {0, 1, 2}}
    \cup {[EmptyModifier EXCEPT !.custom_time = Some(h)] : h \in {11, 15, 5}}
    \cup {[EmptyModifier EXCEPT !.custom_odds = Some([id \in {1} |-> 13])]}

\* the arguments of set_bet_amount
NfcBetAmounts == {None, Some(5000), Some(8000)}

\* NeoFoodClub::new(round_data, bet_amount, None, None)
InitNfc ==
    /\ pc = "idle"
    /\ overflow_checks = FALSE
    /\ index = 0
    /\ arena = 0
    /\ pb_ret = NoRet
    /\ bets_indices = ZeroSelection
    /\ binary = 0
    /\ indices = ZeroSelection
    /\ IbIdle
    /\ HashIdle
    /\ AmountIdle
    /\ DecodeIdle
    /\ ChanceIdle
    /\ stds = [a \in ARENAS |-> Arr5(Frac(4, 4), Frac(1, 4), Frac(1, 4), Frac(1, 4), Frac(1, 4))]
    /\ odds = NoMatrix
    /\ round_dict = NoRoundDict
    /\ nfc_bet_amount \in {None, Some(5000)}
    /\ binaries_arg = <<>>
    /\ bet_set = NoBetSet
    /\ win_ret = [panicked |-> FALSE, value |-> FALSE]
    /\ bustproof_ret = None
    /\ modifier = EmptyModifier
    /\ winners = ZeroSelection
    /\ pirates_binary_arg = 0
    /\ sort_ties = "ascending"
    /\ gen_ret = "Ok"
    /\ np_ret = [panicked |-> FALSE, value |-> 0]
    /\ original \in NfcRounds
    /\ round_data = apply(modifier, original)
    /\ data_cell = None
    /\ clamped_max_bets = None
    /\ net_expected_indices = None
    /\ max_ters_ret = <<>>

\* NeoFoodClub::set_bet_amount(amount)
SetBetAmount ==
    /\ \E amount \in NfcBetAmounts :
          nfc_bet_amount' =
              IF amount.some
              THEN Some(IF amount.val < BET_AMOUNT_MIN THEN BET_AMOUNT_MIN
                        ELSE IF amount.val > BET_AMOUNT_MAX THEN BET_AMOUNT_MAX
                        ELSE amount.val)
              ELSE None
    /\ clamped_max_bets' = None
    /\ max_ters_ret' = <<>>
    /\ bet_set' = NoBetSet
    /\ pc' = "set_bet_amount"
    /\ UNCHANGED <<genVars, original, round_data, data_cell, net_expected_indices, tableVars,
                   binaries_arg, win_ret, bustproof_ret, nfcFrame>>

\* NeoFoodClub::with_modifier(m), clear_caches and Modifier::apply included
WithModifier ==
    /\ \E m \in NfcModifiers :
          /\ IF clears_caches(modifier, round_data, m)
             THEN /\ data_cell' = None
                  /\ clamped_max_bets' = None
                  /\ net_expected_indices' = None
             ELSE UNCHANGED <<data_cell, clamped_max_bets, net_expected_indices>>
          /\ modifier' = m
          /\ round_data' = apply(m, [round_data EXCEPT !.customOdds = None])
    /\ max_ters_ret' = <<>>
    /\ bet_set' = NoBetSet
    /\ pc' = "with_modifier"
    /\ UNCHANGED <<winners, pirates_binary_arg, sort_ties, gen_ret, np_ret, original, tableVars,
                   nfc_bet_amount, binaries_arg, win_ret, bustproof_ret, nfcFrame>>

\* NeoFoodClub::max_ters(), round_dict_data() included
MaxTers ==
    /\ \E data \in {IF data_cell.some THEN data_cell.val
                    ELSE make_round_dicts(stds, custom_odds(round_data))} :
          \E got \in {max_ters(data, modifier, nfc_bet_amount, clamped_max_bets,
                               net_expected_indices)} :
              /\ data_cell' = Some(data)
              /\ clamped_max_bets' = got.clamped_max_bets
              /\ net_expected_indices' = got.net_expected_indices
              /\ max_ters_ret' = got.ret
    /\ bet_set' = NoBetSet
    /\ pc' = "max_ters"
    /\ UNCHANGED <<genVars, original, round_data, tableVars, nfc_bet_amount, binaries_arg,
                   win_ret, bustproof_ret, nfcFrame>>

\* NeoFoodClub::make_max_ter_bets(), max_ter_indices and max_ters included,
\* called on a new object and after with_modifier
MakeMaxTerBets ==
    /\ pc \in {"idle", "with_modifier"}
    /\ \E data \in {IF data_cell.some THEN data_cell.val
                    ELSE make_round_dicts(stds, custom_odds(round_data))} :
          \E got \in {max_ters(data, modifier, nfc_bet_amount, clamped_max_bets,
                               net_expected_indices)} :
              /\ data_cell' = Some(data)
              /\ clamped_max_bets' = got.clamped_max_bets
              /\ net_expected_indices' = got.net_expected_indices
              /\ bet_set' = make_max_ter_bets(data, stds, modifier, nfc_bet_amount, got.ret,
                                              sort_ties)
    /\ max_ters_ret' = <<>>
    /\ pc' = "make_max_ter_bets"
    /\ UNCHANGED <<genVars, original, round_data, tableVars, nfc_bet_amount, binaries_arg,
                   win_ret, bustproof_ret, nfcFrame>>

NextNfc == SetBetAmount \/ WithModifier \/ MaxTers \/ MakeMaxTerBets

SpecNfc == InitNfc /\ [][NextNfc]_vars

----------------------------------------------------------------------------
(* make_bustproof_bets on rounds whose arenas are positive or not.         *)

\* rows of payout factors: 1/2 + 1/3 + 1/8 + 1/10 > 1; the sums of the
\* other two are below 1, with the lowest factor first or second
NegativeRow == Arr5(1, 2, 3, 8, 10)

PositiveRowA == Arr5(1, 5, 7, 11, 13)

PositiveRowB == Arr5(1, 13, 4, 6, 13)

\* rounds with no, one, two, three, four and five positive arenas
BustproofOddsMatrices ==
    LET N == NegativeRow
        A == PositiveRowA
        B == PositiveRowB
    IN  {[a \in ARENAS |-> rows[a + 1]] :
            rows \in {<<N, N, N, N, N>>,
                      <<N, N, A, N, N>>, <<N, N, N, N, B>>, <<A, N, N, N, N>>,
                      <<N, A, N, B, N>>, <<B, N, N, N, A>>, <<N, N, N, B, B>>,
                      <<A, B, N, A, N>>, <<N, B, A, B, N>>,
                      <<N, B, A, B, A>>,
                      <<A, A, A, A, A>>, <<B, B, B, B, B>>}}

InitBustproof ==
    /\ pc = "idle"
    /\ overflow_checks \in BOOLEAN
    /\ index = 0
    /\ arena = 0
    /\ pb_ret = NoRet
    /\ bets_indices = ZeroSelection
    /\ binary = 0
    /\ indices = ZeroSelection
    /\ IbIdle
    /\ HashIdle
    /\ AmountIdle
    /\ DecodeIdle
    /\ ChanceIdle
    /\ stds = [a \in ARENAS |->
                  Arr5(Frac(10, 10), Frac(1, 10), Frac(2, 10), Frac(3, 10), Frac(4, 10))]
    /\ odds \in BustproofOddsMatrices
    /\ round_dict = make_round_dicts(stds, odds)
    /\ nfc_bet_amount \in {None, Some(BET_AMOUNT_MIN), Some(5000)}
    /\ binaries_arg = <<>>
    /\ bet_set = NoBetSet
    /\ win_ret = [panicked |-> FALSE, value |-> FALSE]
    /\ bustproof_ret = None
    /\ NfcIdle

\* `let bets = nfc.make_bustproof_bets()`, and `bets.unwrap()` when it is Some
MakeBustproofBets ==
    /\ pc = "idle"
    /\ bustproof_ret' = make_bustproof_bets(round_dict, stds, odds, nfc_bet_amount)
    /\ bet_set' = IF bustproof_ret'.some THEN bustproof_ret'.val ELSE bet_set
    /\ pc' = IF ~bustproof_ret'.some THEN "make_bustproof_bets: None"
             ELSE IF bet_set'.panicked THEN "panicked" ELSE "make_bustproof_bets"
    /\ UNCHANGED <<nfc_bet_amount, binaries_arg, win_ret, betsFrame>>

NextBustproof ==
    \/ MakeBustproofBets
    \/ IsGuaranteedWin

SpecBustproof == InitBustproof /\ [][NextBustproof]_vars

----------------------------------------------------------------------------
(* Claims about Odds::new and Bets.                                        *)

RECURSIVE SumOver(_, _)
\* the sum of the probabilities of the entries of cs at the positions s
SumOver(cs, s) ==
    IF s = {} THEN FracZero
    ELSE LET i == CHOOSE j \in s : TRUE
         IN  FracAdd(cs[i].probability, SumOver(cs, s \ {i}))

\* C16: for a non-empty list of table indices Odds::new does not panic and
\* yields bust = the entry of value 0 if the table has one and None
\* otherwise, best = the entry of the largest value, most_likely_winner = an
\* entry of value > 0 whose probability is maximal among the entries of
\* value > 0, and partial_rate = the sum of the probabilities of the entries
\* whose value v satisfies 0 < v < n, n being the number of bets.
C16_OddsNew ==
    bet_set.array_indices # <<>> =>
        LET o   == bet_set.odds
            cs  == o.chances
            n   == Len(bet_set.array_indices)
            pos == 1 .. Len(cs)
        IN  /\ ~bet_set.panicked
            /\ \A i \in pos : cs[i].value = 0 => o.bust = Some(cs[i])
            /\ (\A i \in pos : cs[i].value # 0) => o.bust = None
            /\ \E i \in pos : o.best = cs[i]
            /\ \A i \in pos : cs[i].value <= o.best.value
            /\ \E i \in pos : o.most_likely_winner = cs[i]
            /\ o.most_likely_winner.value > 0
            /\ \A i \in pos : cs[i].value > 0 =>
                    FracLeq(cs[i].probability, o.most_likely_winner.probability)
            /\ o.partial_rate = SumOver(cs, {i \in pos : 0 < cs[i].value /\ cs[i].value < n})

\* Bets of three bets whose table has a bust entry, a partial return and a
\* most likely winner that is neither the first winning entry nor the best
C16_Witness ==
    /\ pc = "Bets::new"
    /\ Len(bet_set.array_indices) = 3
    /\ bet_set.odds.bust.some
    /\ bet_set.odds.partial_rate # FracZero
    /\ bet_set.odds.most_likely_winner # bet_set.odds.chances[2]
    /\ bet_set.odds.most_likely_winner # bet_set.odds.best
\* the claimed result of is_guaranteed_win: no bust entry, every stake
\* defined and non-zero, and the largest stake below the least exact
\* product odds x stake
GuaranteedWin(b, data) ==
    /\ ~b.odds.bust.some
    /\ b.bet_amounts.some
    /\ LET amounts == b.bet_amounts.val
           ovs     == bets_odds_values(b, data)
       IN  /\ \A i \in 1 .. Len(amounts) : amounts[i].some /\ amounts[i].val # 0
           /\ \A i \in 1 .. Len(amounts) : \A j \in 1 .. Len(amounts) :
                  WideLt(Wide(amounts[i].val), mul_exact(ovs[j], amounts[j].val))

\* some product odds x stake of the Bets does not fit a u32
ProductOverflows(b, data) ==
    /\ b.bet_amounts.some
    /\ \E i \in 1 .. Len(b.bet_amounts.val) :
          /\ b.bet_amounts.val[i].some
          /\ mul_exact(bets_odds_values(b, data)[i], b.bet_amounts.val[i].val).hi >= 65536

\* C17: is_guaranteed_win returns true if and only if the set has no bust
\* entry, bet_amounts is present with every stake defined and non-zero, and
\* the largest stake is strictly less than the minimum over the bets of
\* odds x stake.
C17_GuaranteedWinIff ==
    pc = "is_guaranteed_win" =>
        /\ ~win_ret.panicked
        /\ win_ret.value = GuaranteedWin(bet_set, round_dict)
\* the Bets is the four single-competitor bets of arena a, with stakes that
\* set_bet_amounts can have stored and stake x odds the same for all four
EqualReturnSingles(b, data, a) ==
    /\ b.array_indices = ArenaSingles(a)
    /\ b.bet_amounts.some
    /\ Len(b.bet_amounts.val) = 4
    /\ \A i \in 1 .. 4 :
          /\ b.bet_amounts.val[i].some
          /\ b.bet_amounts.val[i].val >= BET_AMOUNT_MIN
          /\ b.bet_amounts.val[i].val * data.odds[ArenaSingles(a)[i] + 1]
                = b.bet_amounts.val[1].val * data.odds[ArenaSingles(a)[1] + 1]

\* C18: the bet set of the four single-competitor bets of an arena, staked
\* so that stake x odds is the same for all four, has no bust entry in its
\* Chance table, and is_guaranteed_win returns true for it.
C18_ArenaSinglesGuaranteed ==
    \A a \in ARENAS :
        EqualReturnSingles(bet_set, round_dict, a) =>
            /\ ~bet_set.odds.bust.some
            /\ \A i \in 1 .. Len(bet_set.odds.chances) : bet_set.odds.chances[i].value # 0
            /\ pc = "is_guaranteed_win" => win_ret = [panicked |-> FALSE, value |-> TRUE]

\* is_guaranteed_win has answered for the singles of arena 2 with four
\* different stakes
C18_Witness ==
    /\ pc = "is_guaranteed_win"
    /\ EqualReturnSingles(bet_set, round_dict, 2)
    /\ \A i \in 1 .. 4 : \A j \in 1 .. 4 :
          i # j => bet_set.bet_amounts.val[i] # bet_set.bet_amounts.val[j]
    /\ win_ret.value

\* the number of distinct binaries of the list that are in the table
DistinctValid(data, binaries) ==
    Cardinality({binaries[i] : i \in {j \in 1 .. Len(binaries) :
                                        bins_position(data, binaries[j]).some}})

\* C20: make_bets_from_binaries removes duplicate binaries: the length of
\* the resulting Bets is the number of distinct valid binaries of the list,
\* and no binary is in it twice.
C20_DuplicatesRemoved ==
    pc = "make_bets_from_binaries" =>
        /\ Len(bet_set.array_indices) = DistinctValid(round_dict, binaries_arg)
        /\ \A i \in 1 .. Len(bet_set.bet_binaries) : \A j \in 1 .. Len(bet_set.bet_binaries) :
              bet_set.bet_binaries[i] = bet_set.bet_binaries[j] => i = j
\* the number of positive arenas of the round
PositiveCount == Cardinality({a \in ARENAS : is_positive(arena_new(odds, a))})

\* the winners w, one pirate of 1..4 per arena, win the bet of table index idx
WinsBet(data, idx, w) ==
    \A a \in ARENAS :
        binary_to_indices(data.bins[idx + 1])[a] \in {0, w[a]}

\* C19: with at least one positive arena make_bustproof_bets returns Some
\* set of 4, 7 or 10 bets (for 1, 2, 3 or more positive arenas) of which
\* every winner combination wins at least one, so that its Chance table has
\* no entry of value 0; it returns None exactly when no arena is positive.
C19_BustproofBets ==
    pc \in {"make_bustproof_bets", "make_bustproof_bets: None", "panicked"} =>
        /\ bustproof_ret.some <=> PositiveCount > 0
        /\ bustproof_ret.some =>
              /\ pc # "panicked"
              /\ Len(bustproof_ret.val.array_indices) =
                    (IF PositiveCount = 1 THEN 4 ELSE IF PositiveCount = 2 THEN 7 ELSE 10)
              /\ \A w \in [ARENAS -> 1 .. 4] :
                    \E i \in 1 .. Len(bustproof_ret.val.array_indices) :
                        WinsBet(round_dict, bustproof_ret.val.array_indices[i], w)
              /\ \A i \in 1 .. Len(bustproof_ret.val.odds.chances) :
                    bustproof_ret.val.odds.chances[i].value # 0
              /\ is_bustproof(bustproof_ret.val)

\* max(1, min(bet_amount, maxbets)) for the table entry idx
ClampedMaxBet(data, idx, bet_amount) ==
    LET least == IF bet_amount < data.maxbets[idx + 1] THEN bet_amount ELSE data.maxbets[idx + 1]
    IN  IF least > 1 THEN least ELSE 1

\* C27: fill_bet_amounts gives every bet the stake
\* max(1, min(bet_amount, ceil(1,000,000 / odds))), which is the maxbets
\* value of the bet's table entry clamped by the round's bet amount; when the
\* round has no bet amount the Bets is left as it was.
C27_FillBetAmounts ==
    [][pc' = "fill_bet_amounts" =>
         IF nfc_bet_amount.some
         THEN /\ bet_set'.bet_amounts.some
              /\ Len(bet_set'.bet_amounts.val) = Len(bet_set.array_indices)
              /\ \A i \in 1 .. Len(bet_set.array_indices) :
                    bet_set'.bet_amounts.val[i] =
                        Some(ClampedMaxBet(round_dict, bet_set.array_indices[i], nfc_bet_amount.val))
              /\ [bet_set' EXCEPT !.bet_amounts = None] = [bet_set EXCEPT !.bet_amounts = None]
         ELSE bet_set' = bet_set]_vars

\* stakes were filled over other stakes: one bet got the round's bet amount,
\* another the smaller maximum of its table entry, which is no exact quotient
C27_Witness ==
    /\ pc = "fill_bet_amounts"
    /\ nfc_bet_amount.some
    /\ Len(bet_set.array_indices) = 2
    /\ bet_set.bet_amounts.val[1] = nfc_bet_amount
    /\ bet_set.bet_amounts.val[2].val < nfc_bet_amount.val
    /\ 1000000 % round_dict.odds[bet_set.array_indices[2] + 1] # 0

\* bet_amounts is None, or has one entry per bet and every defined entry in
\* BET_AMOUNT_MIN..BET_AMOUNT_MAX
StakesInRange(b) ==
    b.bet_amounts.some =>
        /\ Len(b.bet_amounts.val) = Len(b.array_indices)
        /\ \A i \in 1 .. Len(b.bet_amounts.val) :
              b.bet_amounts.val[i].some =>
                  b.bet_amounts.val[i].val \in BET_AMOUNT_MIN .. BET_AMOUNT_MAX

\* C30: in every Bets a generator returns, here make_bustproof_bets with the
\* round's bet amount set through set_bet_amount, bet_amounts is None or a
\* list with one entry per bet whose defined entries are in
\* BET_AMOUNT_MIN..BET_AMOUNT_MAX.
C30_StakesInRange == pc = "make_bustproof_bets" => StakesInRange(bet_set)

\* the exact product is above 1,000,000
AboveMillion(x, y) == WideLt(Wide(1000000), mul_exact(x, y))

RECURSIVE WinNpSum(_, _, _, _)
\* the sum over the bets from i on whose binary is within the winners binary
\* of min(odds x stake, 1,000,000), an undefined stake counting as 0
WinNpSum(b, data, winners_binary, i) ==
    IF i > Len(b.array_indices) THEN 0
    ELSE LET o     == data.odds[b.array_indices[i] + 1]
             stake == IF b.bet_amounts.val[i].some THEN b.bet_amounts.val[i].val ELSE 0
         IN  (IF ~BetWins(data.bins[b.array_indices[i] + 1], winners_binary) THEN 0
              ELSE IF AboveMillion(o, stake) THEN 1000000 ELSE o * stake)
             + WinNpSum(b, data, winners_binary, i + 1)

\* C23: get_win_np returns 0 when there are no winners or no bet amounts;
\* otherwise the sum, over the bets whose binary is a subset of the winners
\* binary, of min(odds x stake, 1,000,000), the product odds x stake being
\* computed without 32-bit overflow.
C23_WinNp ==
    pc \in {"get_win_np", "panicked"} /\ bet_set.array_indices # <<>> /\ ~bet_set.panicked =>
        /\ ~np_ret.panicked
        /\ np_ret.value =
              IF ~bet_set.bet_amounts.some \/ pirates_binary(winners) = 0 THEN 0
              ELSE WinNpSum(bet_set, round_dict, pirates_binary(winners), 1)

\* C21: for every pirates_binary with exactly five bits set
\* make_gambit_bets returns a set that satisfies is_gambit(): at least two
\* bets, five bits in its largest binary, every binary a subset of the
\* largest; with another number of bits the assertion fails.
C21_GambitBets ==
    pc = "make_gambit_bets" =>
        IF count_ones(pirates_binary_arg) = 5
        THEN gen_ret = "Ok" /\ is_gambit(bet_set)
        ELSE gen_ret = "panicked"

\* the pirates of a tenbet binary, counted over the five arena nibbles
TenbetPirates(b) ==
    LET n(a) == count_ones(BitAnd(b, BIT_MASKS[a])) IN n(0) + n(1) + n(2) + n(3) + n(4)

\* C22: make_tenbet_bets(b) returns Err when b selects no pirate or more
\* than 3; for 1 to 3 pirates, at most one per arena, it returns Ok with
\* max_amount_of_bets() bets whose binaries contain all bits of b, and
\* is_tenbet() is true.
C22_TenbetBets ==
    pc = "make_tenbet_bets" =>
        IF TenbetPirates(pirates_binary_arg) = 0 \/ TenbetPirates(pirates_binary_arg) > 3
        THEN gen_ret = "Err"
        ELSE (\A a \in ARENAS : count_ones(BitAnd(pirates_binary_arg, BIT_MASKS[a])) <= 1) =>
                /\ gen_ret = "Ok"
                /\ Len(bet_set.array_indices) = max_amount_of_bets(modifier)
                /\ \A i \in 1 .. Len(bet_set.bet_binaries) :
                      BitAnd(bet_set.bet_binaries[i], pirates_binary_arg) = pirates_binary_arg
                /\ is_tenbet(bet_set)

\* the round data of NeoFoodClub::new(original, _, _, Some(modifier))
FreshRoundData == apply(modifier, original)

\* the table of a fresh object: make_round_dicts of its probabilities and
\* custom odds
FreshRoundDict == make_round_dicts(stds, custom_odds(FreshRoundData))

\* C24: after any sequence of with_modifier calls ending in
\* with_modifier(m), custom_odds(), changes() and the binaries of
\* make_max_ter_bets equal those of an object freshly constructed from the
\* original round data with modifier m.
C24_HistoryIndependent ==
    /\ pc = "with_modifier" =>
          /\ custom_odds(round_data) = custom_odds(FreshRoundData)
          /\ OptEq(round_data.changes, FreshRoundData.changes)
    /\ pc = "make_max_ter_bets" =>
          bet_set.bet_binaries =
              make_max_ter_bets(FreshRoundDict, stds, modifier, nfc_bet_amount,
                                max_ters_fresh(FreshRoundDict, modifier, nfc_bet_amount),
                                sort_ties).bet_binaries

\* C28: after any interleaving of max_ters and make_max_ter_bets queries
\* with set_bet_amount and with_modifier calls, max_ters() returns the
\* values of a freshly constructed object with the current round data, bet
\* amount and modifier.
C28_CachesNeverStale ==
    pc = "max_ters" =>
        max_ters_ret = max_ters_fresh(make_round_dicts(stds, custom_odds(round_data)),
                                      modifier, nfc_bet_amount)
====
